---- MODULE Spec2Model ----
(***************************************************************************)
(* Model of the order book of src/src/core/orderbook.py: the two sides     *)
(* (price index plus price -> PriceLevel dictionary), the cached best bid, *)
(* best ask and mid price, and the update counter; and of the analyzers    *)
(* built on it, src/src/analytics/depth_analyzer.py (stateless) and        *)
(* src/src/analytics/spread_analyzer.py (with its history of records).     *)
(*                                                                         *)
(* Numbers.  The program holds prices and quantities in floats.  The model *)
(* holds every price-valued number in half ticks: a price of k ticks is    *)
(* the integer 2*k, so that the mean of two prices, (a + b) / 2, is an     *)
(* integer and the division of _update_caches is exact, as it is in the    *)
(* program for prices of this size.  Quantities are whole lots.            *)
(*                                                                         *)
(* Optional values.  None is the empty tuple and a present value x is the  *)
(* one-element tuple <<x>>, so that None differs from every number,        *)
(* the number 0 included (Python's truth test treats both as false).       *)
(***************************************************************************)
EXTENDS Integers, Sequences, FiniteSets, TLC

\* ---------------------------------------------------------------- bounds
MaxEntries == 2     \* an update call carries at most MaxEntries entries
MaxUpdates == 4     \* update calls explored per behaviour
MaxCalls == 3       \* calculate_all_metrics calls explored per behaviour
MaxSamples == 2     \* update_history calls explored per behaviour

\* ------------------------------------------------------ optional values
None == <<>>
Some(x) == <<x>>
Val(o) == o[1]
\* Python's truth test of an Optional[float]: None and 0.0 are false.
Truthy(o) == o # None /\ Val(o) # 0

\* --------------------------------------------------------------- inputs
\* The (price, quantity) tuples an update call is given: one that the
\* update drops for its price, one that it drops for its quantity, and
\* entries it keeps at two prices (1 and 2 ticks) with different quantities.
Entries == {<<0, 1>>, <<2, 0>>, <<2, 1>>, <<4, 2>>}
Prices == {e[1] : e \in Entries}
\* the List[Tuple[float, float]] argument of update_bids / update_asks
EntryLists == UNION {[1..n -> Entries] : n \in 0..MaxEntries}

\* ------------------------------------------------- Order and PriceLevel
Order(price, quantity) == [price |-> price, quantity |-> quantity]

PriceLevel(price) == [price |-> price, orders |-> <<>>, total_quantity |-> 0]

add_order(level, order) ==
    [level EXCEPT !.orders = Append(@, order),
                  !.total_quantity = @ + order.quantity]

\* the empty dictionary
EmptyLevels == [p \in {} |-> PriceLevel(p)]

\* level_dict[price] = level
SetItem(dict, price, level) ==
    [p \in (DOMAIN dict) \cup {price} |-> IF p = price THEN level ELSE dict[p]]

\* ------------------------------------------------------------- sorting
\* sorted(entries, key=lambda x: x[0], reverse=reverse): a stable sort by
\* price; entries of equal price keep the order of the argument, also under
\* reverse=True.
RECURSIVE sorted(_, _)
sorted(entries, reverse) ==
    IF entries = <<>> THEN <<>>
    ELSE LET n == Len(entries)
             front == sorted(SubSeq(entries, 1, n - 1), reverse)
             e == entries[n]
             Before(x) == IF reverse THEN x[1] >= e[1] ELSE x[1] <= e[1]
             k == Cardinality({i \in 1..Len(front) : Before(front[i])})
         IN SubSeq(front, 1, k) \o <<e>> \o SubSeq(front, k + 1, Len(front))

\* ------------------------------------------------ the loop of an update
\* for price, quantity in <sorted entries>:
\*     if price > 0 and quantity > 0:
\*         prices.append(price); level = PriceLevel(price)
\*         level.add_order(Order(price, quantity)); levels[price] = level
\* started from the cleared index and the cleared dictionary.
\* mutant of the test of the loop: an entry passes on either component
EntryAcceptedEither(price, quantity) == price > 0 \/ quantity > 0

EntryAccepted(price, quantity) == price > 0 /\ quantity > 0

RECURSIVE RebuildSide(_)
RebuildSide(ordered) ==
    IF ordered = <<>> THEN [prices |-> <<>>, levels |-> EmptyLevels]
    ELSE LET n == Len(ordered)
             prev == RebuildSide(SubSeq(ordered, 1, n - 1))
             price == ordered[n][1]
             quantity == ordered[n][2]
         IN IF EntryAccepted(price, quantity)
            THEN [prices |-> Append(prev.prices, price),
                  levels |-> SetItem(prev.levels, price,
                                     add_order(PriceLevel(price),
                                               Order(price, quantity)))]
            ELSE prev

\* ------------------------------------------------------- _update_caches
\* The new values of _best_bid, _best_ask and _mid_price, given the two
\* indexes after the rebuild and the cached values before the call.
\* mutants of _update_caches: the best price read from the far end of the
\* index; the mid price computed before the best prices are refreshed
UpdateCachesFarEnd(bids, asks, bb, ba, mid) ==
    LET nbb == IF bids # <<>> THEN Some(bids[Len(bids)]) ELSE bb
        nba == IF asks # <<>> THEN Some(asks[Len(asks)]) ELSE ba
    IN [best_bid |-> nbb,
        best_ask |-> nba,
        mid_price |-> IF Truthy(nbb) /\ Truthy(nba)
                      THEN Some((Val(nbb) + Val(nba)) \div 2)
                      ELSE mid]

UpdateCachesMidFirst(bids, asks, bb, ba, mid) ==
    [best_bid |-> IF bids # <<>> THEN Some(bids[1]) ELSE bb,
     best_ask |-> IF asks # <<>> THEN Some(asks[1]) ELSE ba,
     mid_price |-> IF Truthy(bb) /\ Truthy(ba)
                   THEN Some((Val(bb) + Val(ba)) \div 2)
                   ELSE mid]

UpdateCaches(bids, asks, bb, ba, mid) ==
    LET nbb == IF bids # <<>> THEN Some(bids[1]) ELSE bb
        nba == IF asks # <<>> THEN Some(asks[1]) ELSE ba
    IN [best_bid |-> nbb,
        best_ask |-> nba,
        mid_price |-> IF Truthy(nbb) /\ Truthy(nba)
                      THEN Some((Val(nbb) + Val(nba)) \div 2)
                      ELSE mid]

\* ---------------------------------------------------------------- state
VARIABLES
    bid_prices,     \* OrderBook.bid_prices: list of prices
    ask_prices,     \* OrderBook.ask_prices
    bid_levels,     \* OrderBook.bid_levels: price -> PriceLevel
    ask_levels,     \* OrderBook.ask_levels
    best_bid,       \* OrderBook._best_bid
    best_ask,       \* OrderBook._best_ask
    mid_price,      \* OrderBook._mid_price
    update_count,   \* OrderBook.update_count
    last_call,      \* the update call that completed last: method and argument
    repeated,       \* last_call had the method and argument of the call before it
    snapshots,      \* the update methods that have been called on this book
    history,        \* SpreadAnalyzer.history: list of SpreadMetrics
    spread_returned,\* what SpreadAnalyzer.calculate_all_metrics returned last
    calls,          \* calculate_all_metrics calls made in this behaviour
    price_history,  \* LiquidityAnalyzer.price_history
    volume_history, \* LiquidityAnalyzer.volume_history
    fed,            \* update_history calls made in this behaviour
    figures,        \* what the OrderBookVisualizer has returned, in order
    writer,         \* the update call a writer thread is in: where, and its locals
    reader,         \* the reads a reader thread is making: where, and what it has read
    published       \* what the book has shown at the return of each update call

\* the book, and the analyzers built on it
book_vars == <<bid_prices, ask_prices, bid_levels, ask_levels, best_bid, best_ask,
               mid_price, update_count, last_call, repeated, snapshots>>
analyzer_vars == <<history, spread_returned, calls>>
liquidity_vars == <<price_history, volume_history, fed>>
visualizer_vars == <<figures>>
thread_vars == <<writer, reader, published>>
vars == <<book_vars, analyzer_vars, liquidity_vars, visualizer_vars, thread_vars>>

\* no update call is in progress
Idle == [pc |-> "idle"]

\* a reader about to read best_bid, with nothing read yet
Fresh == [pc |-> "best_bid", seen |-> <<>>]

\* what a reader can read of the book: the three cached scalars and the two
\* price indexes
Visible ==
    [best_bid |-> best_bid, best_ask |-> best_ask, mid_price |-> mid_price,
     bid_prices |-> bid_prices, ask_prices |-> ask_prices]

\* no thread has started
Threads_init ==
    /\ writer = Idle
    /\ reader = Fresh
    /\ published = {Visible}

\* OrderBook.__init__
OrderBook_init ==
    /\ bid_prices = <<>>
    /\ ask_prices = <<>>
    /\ bid_levels = EmptyLevels
    /\ ask_levels = EmptyLevels
    /\ best_bid = None
    /\ best_ask = None
    /\ mid_price = None
    /\ update_count = 0
    /\ last_call = [method |-> "__init__", entries |-> <<>>]
    /\ repeated = FALSE
    /\ snapshots = {}

\* SpreadAnalyzer.__init__
SpreadAnalyzer_init ==
    /\ history = <<>>
    /\ spread_returned = None
    /\ calls = 0

\* LiquidityAnalyzer.__init__(orderbook, price_history, volume_history):
\* `x or []` is x unless x is None or empty; the series are sequences here,
\* and None is the empty sequence
LiquidityAnalyzer_init(prices, volumes) ==
    /\ price_history = prices
    /\ volume_history = volumes
    /\ fed = 0

\* OrderBookVisualizer.__init__: nothing returned yet
OrderBookVisualizer_init == figures = <<>>

\* a new book, and the analyzers constructed on it with no series
Init ==
    /\ OrderBook_init
    /\ SpreadAnalyzer_init
    /\ LiquidityAnalyzer_init(None, None)
    /\ OrderBookVisualizer_init
    /\ Threads_init

Called(method, entries) ==
    /\ last_call' = [method |-> method, entries |-> entries]
    /\ repeated' = (last_call = [method |-> method, entries |-> entries])
    /\ snapshots' = snapshots \cup {method}

\* mutants of update_bids: the rebuild without the two clear() calls; an
\* early return on an empty argument
update_bidsNoClear(bids) ==
    /\ update_count < MaxUpdates
    /\ LET side == RebuildSide(sorted(bids, TRUE))
           prices == bid_prices \o side.prices
           caches == UpdateCaches(prices, ask_prices,
                                  best_bid, best_ask, mid_price)
       IN /\ bid_prices' = prices
          /\ bid_levels' = [p \in (DOMAIN bid_levels) \cup (DOMAIN side.levels) |->
                               IF p \in DOMAIN side.levels
                               THEN side.levels[p] ELSE bid_levels[p]]
          /\ best_bid' = caches.best_bid
          /\ best_ask' = caches.best_ask
          /\ mid_price' = caches.mid_price
    /\ update_count' = update_count + 1
    /\ UNCHANGED <<ask_prices, ask_levels>>
    /\ Called("update_bids", bids)
    /\ UNCHANGED <<analyzer_vars, liquidity_vars, visualizer_vars, thread_vars>>

update_bidsEarlyReturn(bids) ==
    /\ update_count < MaxUpdates
    /\ LET side == RebuildSide(sorted(bids, TRUE))
           caches == UpdateCaches(side.prices, ask_prices,
                                  best_bid, best_ask, mid_price)
       IN /\ bid_prices' = side.prices
          /\ bid_levels' = side.levels
          /\ best_bid' = caches.best_bid
          /\ best_ask' = caches.best_ask
          /\ mid_price' = caches.mid_price
    /\ update_count' = IF bids = <<>> THEN update_count ELSE update_count + 1
    /\ UNCHANGED <<ask_prices, ask_levels>>
    /\ Called("update_bids", bids)
    /\ UNCHANGED <<analyzer_vars, liquidity_vars, visualizer_vars, thread_vars>>

\* OrderBook.update_bids(bids)
update_bids(bids) ==
    /\ update_count < MaxUpdates
    /\ LET side == RebuildSide(sorted(bids, TRUE))
           caches == UpdateCaches(side.prices, ask_prices,
                                  best_bid, best_ask, mid_price)
       IN /\ bid_prices' = side.prices
          /\ bid_levels' = side.levels
          /\ best_bid' = caches.best_bid
          /\ best_ask' = caches.best_ask
          /\ mid_price' = caches.mid_price
    /\ update_count' = update_count + 1
    /\ UNCHANGED <<ask_prices, ask_levels>>
    /\ Called("update_bids", bids)
    /\ UNCHANGED <<analyzer_vars, liquidity_vars, visualizer_vars, thread_vars>>

\* OrderBook.update_asks(asks)
update_asks(asks) ==
    /\ update_count < MaxUpdates
    /\ LET side == RebuildSide(sorted(asks, FALSE))
           caches == UpdateCaches(bid_prices, side.prices,
                                  best_bid, best_ask, mid_price)
       IN /\ ask_prices' = side.prices
          /\ ask_levels' = side.levels
          /\ best_bid' = caches.best_bid
          /\ best_ask' = caches.best_ask
          /\ mid_price' = caches.mid_price
    /\ update_count' = update_count + 1
    /\ UNCHANGED <<bid_prices, bid_levels>>
    /\ Called("update_asks", asks)
    /\ UNCHANGED <<analyzer_vars, liquidity_vars, visualizer_vars, thread_vars>>

UpdateBids == \E bids \in EntryLists : update_bids(bids)
UpdateAsks == \E asks \in EntryLists : update_asks(asks)

Next == UpdateBids \/ UpdateAsks

Spec == Init /\ [][Next]_vars

\* ------------------------------------------- an update call, by statement
\* One writer thread runs update_bids / update_asks; a reader thread reads
\* the properties of the book between any two statements of the writer.
\* The class holds no lock: a statement is a step, and writer.pc names the
\* statement the writer is to run next.
OfBids(method) == method = "update_bids"

\* the call is entered: the argument is sorted for the loop
Enter(method, entries) ==
    /\ writer = Idle
    /\ update_count < MaxUpdates
    /\ writer' = [pc |-> "clear_prices", method |-> method, entries |-> entries,
                  todo |-> sorted(entries, OfBids(method))]
    /\ UNCHANGED <<book_vars, reader, published>>

\* self.bid_prices.clear() / self.ask_prices.clear()
ClearPrices ==
    /\ writer.pc = "clear_prices"
    /\ IF OfBids(writer.method)
       THEN bid_prices' = <<>> /\ UNCHANGED ask_prices
       ELSE ask_prices' = <<>> /\ UNCHANGED bid_prices
    /\ writer' = [writer EXCEPT !.pc = "clear_levels"]
    /\ UNCHANGED <<bid_levels, ask_levels, best_bid, best_ask, mid_price,
                   update_count, last_call, repeated, snapshots, reader, published>>

\* self.bid_levels.clear() / self.ask_levels.clear()
ClearLevels ==
    /\ writer.pc = "clear_levels"
    /\ IF OfBids(writer.method)
       THEN bid_levels' = EmptyLevels /\ UNCHANGED ask_levels
       ELSE ask_levels' = EmptyLevels /\ UNCHANGED bid_levels
    /\ writer' = [writer EXCEPT !.pc = "loop"]
    /\ UNCHANGED <<bid_prices, ask_prices, best_bid, best_ask, mid_price,
                   update_count, last_call, repeated, snapshots, reader, published>>

\* the head of the loop: the next entry is tested; an accepted one has its
\* price appended to the index, a refused one is passed over, and with no
\* entry left the loop is over
AppendPrice ==
    /\ writer.pc = "loop"
    /\ IF writer.todo = <<>>
       THEN /\ writer' = [writer EXCEPT !.pc = "best_bid"]
            /\ UNCHANGED <<bid_prices, ask_prices>>
       ELSE IF EntryAccepted(writer.todo[1][1], writer.todo[1][2])
       THEN /\ IF OfBids(writer.method)
               THEN /\ bid_prices' = Append(bid_prices, writer.todo[1][1])
                    /\ UNCHANGED ask_prices
               ELSE /\ ask_prices' = Append(ask_prices, writer.todo[1][1])
                    /\ UNCHANGED bid_prices
            /\ writer' = [writer EXCEPT !.pc = "set_level"]
       ELSE /\ writer' = [writer EXCEPT !.todo = Tail(writer.todo)]
            /\ UNCHANGED <<bid_prices, ask_prices>>
    /\ UNCHANGED <<bid_levels, ask_levels, best_bid, best_ask, mid_price,
                   update_count, last_call, repeated, snapshots, reader, published>>

\* level = PriceLevel(price); level.add_order(Order(price, quantity));
\* self.bid_levels[price] = level
SetLevel ==
    /\ writer.pc = "set_level"
    /\ LET price == writer.todo[1][1]
           level == add_order(PriceLevel(price), Order(price, writer.todo[1][2]))
       IN IF OfBids(writer.method)
          THEN /\ bid_levels' = SetItem(bid_levels, price, level)
               /\ UNCHANGED ask_levels
          ELSE /\ ask_levels' = SetItem(ask_levels, price, level)
               /\ UNCHANGED bid_levels
    /\ writer' = [writer EXCEPT !.pc = "loop", !.todo = Tail(writer.todo)]
    /\ UNCHANGED <<bid_prices, ask_prices, best_bid, best_ask, mid_price,
                   update_count, last_call, repeated, snapshots, reader, published>>

\* _update_caches: if self.bid_prices: self._best_bid = self.bid_prices[0]
CacheBestBid ==
    /\ writer.pc = "best_bid"
    /\ best_bid' = IF bid_prices # <<>> THEN Some(bid_prices[1]) ELSE best_bid
    /\ writer' = [writer EXCEPT !.pc = "best_ask"]
    /\ UNCHANGED <<bid_prices, ask_prices, bid_levels, ask_levels, best_ask,
                   mid_price, update_count, last_call, repeated, snapshots,
                   reader, published>>

\* _update_caches: if self.ask_prices: self._best_ask = self.ask_prices[0]
CacheBestAsk ==
    /\ writer.pc = "best_ask"
    /\ best_ask' = IF ask_prices # <<>> THEN Some(ask_prices[1]) ELSE best_ask
    /\ writer' = [writer EXCEPT !.pc = "mid_price"]
    /\ UNCHANGED <<bid_prices, ask_prices, bid_levels, ask_levels, best_bid,
                   mid_price, update_count, last_call, repeated, snapshots,
                   reader, published>>

\* _update_caches: if self._best_bid and self._best_ask:
\*     self._mid_price = (self._best_bid + self._best_ask) / 2
CacheMidPrice ==
    /\ writer.pc = "mid_price"
    /\ mid_price' = IF Truthy(best_bid) /\ Truthy(best_ask)
                    THEN Some((Val(best_bid) + Val(best_ask)) \div 2)
                    ELSE mid_price
    /\ writer' = [writer EXCEPT !.pc = "update_count"]
    /\ UNCHANGED <<bid_prices, ask_prices, bid_levels, ask_levels, best_bid,
                   best_ask, update_count, last_call, repeated, snapshots,
                   reader, published>>

\* self.update_count += 1, and the call returns
Return ==
    /\ writer.pc = "update_count"
    /\ update_count' = update_count + 1
    /\ Called(writer.method, writer.entries)
    /\ published' = published \cup {Visible}
    /\ writer' = Idle
    /\ UNCHANGED <<bid_prices, ask_prices, bid_levels, ask_levels, best_bid,
                   best_ask, mid_price, reader>>

\* the reader: book.best_bid, book.best_ask, book.mid_price, then the two
\* price indexes, one read a step, and again from the start
Reads == <<"best_bid", "best_ask", "mid_price", "bid_prices", "ask_prices", "done">>

NextRead(pc) == Reads[(CHOOSE i \in DOMAIN Reads : Reads[i] = pc) + 1]

Read ==
    /\ reader.pc # "done"
    /\ reader' = [pc |-> NextRead(reader.pc),
                  seen |-> Append(reader.seen, Visible[reader.pc])]
    /\ UNCHANGED <<book_vars, writer, published>>

ReadAgain ==
    /\ reader.pc = "done"
    /\ reader' = Fresh
    /\ UNCHANGED <<book_vars, writer, published>>

\* the snapshots the writer is given: an empty one, one or two levels
ConcurrentBidLists == {<<>>, <<<<2, 1>>>>, <<<<4, 1>>, <<2, 1>>>>}
ConcurrentAskLists == {<<>>, <<<<6, 1>>>>, <<<<8, 1>>>>}

EnterBids == \E bids \in ConcurrentBidLists : Enter("update_bids", bids)
EnterAsks == \E asks \in ConcurrentAskLists : Enter("update_asks", asks)

ConcurrentNext ==
    /\ \/ EnterBids
       \/ EnterAsks
       \/ ClearPrices
       \/ ClearLevels
       \/ AppendPrice
       \/ SetLevel
       \/ CacheBestBid
       \/ CacheBestAsk
       \/ CacheMidPrice
       \/ Return
       \/ Read
       \/ ReadAgain
    /\ UNCHANGED <<analyzer_vars, liquidity_vars, visualizer_vars>>

ConcurrentSpec == Init /\ [][ConcurrentNext]_vars

\* -------------------------------------------------------------- queries
\* OrderBook.get_spread
get_spread ==
    IF Truthy(best_bid) /\ Truthy(best_ask)
    THEN Some(Val(best_ask) - Val(best_bid))
    ELSE None

\* prices[:levels] for levels >= 0
Take(prices, levels) ==
    SubSeq(prices, 1, IF levels < Len(prices) THEN levels ELSE Len(prices))

RECURSIVE SumQuantity(_)
SumQuantity(rows) ==
    IF rows = <<>> THEN 0
    ELSE rows[Len(rows)].quantity + SumQuantity(SubSeq(rows, 1, Len(rows) - 1))

\* the rows get_depth appends for one side
DepthRows(prices, level_dict, levels) ==
    [i \in 1..Len(Take(prices, levels)) |->
        [price |-> prices[i],
         quantity |-> level_dict[prices[i]].total_quantity,
         order_count |-> Len(level_dict[prices[i]].orders)]]

\* OrderBook.get_depth(levels) evaluated on given sides
DepthOf(bp, bl, ap, al, levels) ==
    [bids |-> DepthRows(bp, bl, levels),
     asks |-> DepthRows(ap, al, levels),
     total_bid_volume |-> SumQuantity(DepthRows(bp, bl, levels)),
     total_ask_volume |-> SumQuantity(DepthRows(ap, al, levels))]

get_depth(levels) == DepthOf(bid_prices, bid_levels, ask_prices, ask_levels, levels)

\* ---------------------------------------------------------- fractions
\* A quotient of the program is held as the pair <<numerator, denominator>>
\* with a positive denominator, and compared over their least common denominator; the
\* float 0.0 is <<0, 1>>.
Frac(n, d) == IF d < 0 THEN <<0 - n, 0 - d>> ELSE <<n, d>>

Abs(x) == IF x < 0 THEN 0 - x ELSE x

RECURSIVE Gcd(_, _)
Gcd(a, b) == IF b = 0 THEN a ELSE Gcd(b, a % b)

Lcm(a, b) == (a \div Gcd(a, b)) * b

\* the numerator of f over the least common denominator of f and g
Over(f, g) == f[1] * (Lcm(f[2], g[2]) \div f[2])

FracEq(f, g) == Over(f, g) = Over(g, f)
FracLess(f, g) == Over(f, g) < Over(g, f)
FracLeq(f, g) == Over(f, g) <= Over(g, f)

\* the same number in lowest terms
Reduced(f) ==
    LET g == Gcd(Abs(f[1]), f[2])
    IN <<f[1] \div g, f[2] \div g>>

\* -------------------------------------------------------- estimate_vwap
\* the side argument of estimate_vwap / estimate_slippage: the two valid
\* strings and one string that is neither
Sides == {"buy", "sell", "hold"}

\* the quantity argument: from nothing up to more than a side can hold
\* (an accepted entry carries at most 2 lots)
VwapQuantities == 0..(2 * MaxEntries + 1)

\* mutant of the loop: the level that overshoots is taken whole
RECURSIVE VwapWalkOvershoot(_, _, _, _, _, _)
VwapWalkOvershoot(levels, level_dict, quantity, i, total_cost, filled_quantity) ==
    IF i > Len(levels)
    THEN [total_cost |-> total_cost, filled_quantity |-> filled_quantity]
    ELSE LET price == levels[i]
             available == level_dict[price].total_quantity
         IN IF filled_quantity + available <= quantity
            THEN VwapWalkOvershoot(levels, level_dict, quantity, i + 1,
                                   total_cost + price * available,
                                   filled_quantity + available)
            ELSE [total_cost |-> total_cost + price * available,
                  filled_quantity |-> filled_quantity + available]

\* the loop of estimate_vwap from position i of the index on, with the
\* running total_cost and filled_quantity; the else branch is the break
RECURSIVE VwapWalk(_, _, _, _, _, _)
VwapWalk(levels, level_dict, quantity, i, total_cost, filled_quantity) ==
    IF i > Len(levels)
    THEN [total_cost |-> total_cost, filled_quantity |-> filled_quantity]
    ELSE LET price == levels[i]
             available == level_dict[price].total_quantity
         IN IF filled_quantity + available <= quantity
            THEN VwapWalk(levels, level_dict, quantity, i + 1,
                          total_cost + price * available,
                          filled_quantity + available)
            ELSE [total_cost |-> total_cost + price * (quantity - filled_quantity),
                  filled_quantity |-> quantity]

\* mutant of estimate_vwap: the result of an order that fills nothing
\* reports nothing left over
estimate_vwapNothingRemaining(quantity, side) ==
    IF side \notin {"buy", "sell"} THEN [raised |-> "ValueError"]
    ELSE LET levels == IF side = "buy" THEN ask_prices ELSE bid_prices
             level_dict == IF side = "buy" THEN ask_levels ELSE bid_levels
             w == VwapWalk(levels, level_dict, quantity, 1, 0, 0)
         IN IF w.filled_quantity = 0
            THEN [raised |-> "", vwap |-> <<0, 1>>, filled |-> 0,
                  remaining |-> 0]
            ELSE [raised |-> "",
                  vwap |-> Frac(w.total_cost, w.filled_quantity),
                  filled |-> w.filled_quantity,
                  remaining |-> quantity - w.filled_quantity]

\* mutant of estimate_vwap: no validation of side, so that any other string
\* is served from the bid side like 'sell'
estimate_vwapUnvalidated(quantity, side) ==
    LET levels == IF side = "buy" THEN ask_prices ELSE bid_prices
        level_dict == IF side = "buy" THEN ask_levels ELSE bid_levels
        w == VwapWalk(levels, level_dict, quantity, 1, 0, 0)
    IN IF w.filled_quantity = 0
       THEN [raised |-> "", vwap |-> <<0, 1>>, filled |-> 0,
             remaining |-> quantity]
       ELSE [raised |-> "",
             vwap |-> Frac(w.total_cost, w.filled_quantity),
             filled |-> w.filled_quantity,
             remaining |-> quantity - w.filled_quantity]

\* OrderBook.estimate_vwap(quantity, side): the record it returns, with
\* raised = "" ; or the exception it raises, with no result
estimate_vwap(quantity, side) ==
    IF side \notin {"buy", "sell"} THEN [raised |-> "ValueError"]
    ELSE LET levels == IF side = "buy" THEN ask_prices ELSE bid_prices
             level_dict == IF side = "buy" THEN ask_levels ELSE bid_levels
             w == VwapWalk(levels, level_dict, quantity, 1, 0, 0)
         IN IF w.filled_quantity = 0
            THEN [raised |-> "", vwap |-> <<0, 1>>, filled |-> 0,
                  remaining |-> quantity]
            ELSE [raised |-> "",
                  vwap |-> Frac(w.total_cost, w.filled_quantity),
                  filled |-> w.filled_quantity,
                  remaining |-> quantity - w.filled_quantity]

\* mutant of estimate_slippage: the two signs exchanged
estimate_slippageSignsExchanged(quantity, side) ==
    IF ~Truthy(mid_price)
    THEN [raised |-> "", slippage_bps |-> <<0, 1>>, slippage_abs |-> <<0, 1>>]
    ELSE LET vwap_result == estimate_vwap(quantity, side)
             mid == Val(mid_price)
         IN IF vwap_result.raised # "" THEN vwap_result
            ELSE IF vwap_result.filled = 0
            THEN [raised |-> "", slippage_bps |-> <<0, 1>>,
                  slippage_abs |-> <<0, 1>>]
            ELSE LET vwap == vwap_result.vwap
                     slippage_abs ==
                         IF side = "buy"
                         THEN Frac(mid * vwap[2] - vwap[1], vwap[2])
                         ELSE Frac(vwap[1] - mid * vwap[2], vwap[2])
                 IN [raised |-> "",
                     slippage_bps |-> Frac(slippage_abs[1] * 10000,
                                           slippage_abs[2] * mid),
                     slippage_abs |-> slippage_abs,
                     vwap |-> vwap,
                     mid_price |-> mid,
                     filled |-> vwap_result.filled]

\* OrderBook.estimate_slippage(quantity, side); an exception of
\* estimate_vwap passes through
estimate_slippage(quantity, side) ==
    IF ~Truthy(mid_price)
    THEN [raised |-> "", slippage_bps |-> <<0, 1>>, slippage_abs |-> <<0, 1>>]
    ELSE LET vwap_result == estimate_vwap(quantity, side)
             mid == Val(mid_price)
         IN IF vwap_result.raised # "" THEN vwap_result
            ELSE IF vwap_result.filled = 0
            THEN [raised |-> "", slippage_bps |-> <<0, 1>>,
                  slippage_abs |-> <<0, 1>>]
            ELSE LET vwap == vwap_result.vwap
                     slippage_abs ==
                         IF side = "buy"
                         THEN Frac(vwap[1] - mid * vwap[2], vwap[2])
                         ELSE Frac(mid * vwap[2] - vwap[1], vwap[2])
                 IN [raised |-> "",
                     slippage_bps |-> Frac(slippage_abs[1] * 10000,
                                           slippage_abs[2] * mid),
                     slippage_abs |-> slippage_abs,
                     vwap |-> vwap,
                     mid_price |-> mid,
                     filled |-> vwap_result.filled]

\* -------------------------------------------------------- DepthAnalyzer
\* DepthAnalyzer.__init__: depth_levels
depth_levels == 20

RECURSIVE SumOfSquares(_)
SumOfSquares(rows) ==
    IF rows = <<>> THEN 0
    ELSE rows[Len(rows)].quantity * rows[Len(rows)].quantity
             + SumOfSquares(SubSeq(rows, 1, Len(rows) - 1))

\* herfindahl_index of the quantities of the rows of one side
herfindahl_index(rows) ==
    IF SumQuantity(rows) = 0 THEN <<1, 1>>
    ELSE Reduced(Frac(SumOfSquares(rows), SumQuantity(rows) * SumQuantity(rows)))

\* max(0, min(100, x)) of a fraction
Clamp100(x) ==
    IF FracLess(x, <<0, 1>>) THEN <<0, 1>>
    ELSE IF FracLess(<<100, 1>>, x) THEN <<100, 1>>
    ELSE x

\* DepthAnalyzer._calculate_resilience_score(depth):
\* 100 * (1 - (bid_concentration + ask_concentration) / 2), clamped
calculate_resilience_score(depth) ==
    IF Len(depth.bids) < 3 \/ Len(depth.asks) < 3 THEN <<0, 1>>
    ELSE LET b == herfindahl_index(depth.bids)
             a == herfindahl_index(depth.asks)
         IN Clamp100(Reduced(Frac(100 * (2 * b[2] * a[2] - b[1] * a[2] - a[1] * b[2]),
                                  2 * b[2] * a[2])))

\* DepthAnalyzer.calculate_all_metrics on the depth it queried: the volume
\* and resilience fields of the DepthMetrics it returns (a DepthMetrics()
\* with its defaults when a side has no row)
DepthMetricsOf(depth) ==
    IF depth.bids = <<>> \/ depth.asks = <<>>
    THEN [total_bid_volume |-> 0, total_ask_volume |-> 0,
          volume_imbalance |-> <<0, 1>>, depth_resilience |-> <<0, 1>>]
    ELSE LET total_volume == depth.total_bid_volume + depth.total_ask_volume
         IN [total_bid_volume |-> depth.total_bid_volume,
             total_ask_volume |-> depth.total_ask_volume,
             volume_imbalance |->
                 IF total_volume > 0
                 THEN Frac(depth.total_bid_volume - depth.total_ask_volume,
                           total_volume)
                 ELSE <<0, 1>>,
             depth_resilience |-> calculate_resilience_score(depth)]

DepthAnalyzer_calculate_all_metrics == DepthMetricsOf(get_depth(depth_levels))

\* DepthAnalyzer._calculate_partial_vwap(depth, target_volume).  Volumes
\* and costs are held doubled, so that target_volume / 2 is a whole number:
\* filled2 is 2 * filled_volume and cost2 is 2 * total_cost.
\* the loop over depth['bids'] from row i on; the else branch is the break
RECURSIVE PartialVwapBids(_, _, _, _, _)
PartialVwapBids(rows, target_volume, i, cost2, filled2) ==
    IF i > Len(rows) THEN [cost2 |-> cost2, filled2 |-> filled2]
    ELSE LET available == rows[i].quantity
         IN IF filled2 + 2 * available <= target_volume
            THEN PartialVwapBids(rows, target_volume, i + 1,
                                 cost2 + rows[i].price * 2 * available,
                                 filled2 + 2 * available)
            ELSE [cost2 |-> cost2 + rows[i].price * (target_volume - filled2),
                  filled2 |-> target_volume]

\* the loop over depth['asks'], started with what the bids have filled
RECURSIVE PartialVwapAsks(_, _, _, _, _)
PartialVwapAsks(rows, target_volume, i, cost2, filled2) ==
    IF i > Len(rows) THEN [cost2 |-> cost2, filled2 |-> filled2]
    ELSE LET available == rows[i].quantity
         IN IF filled2 + 2 * available <= 2 * target_volume
            THEN PartialVwapAsks(rows, target_volume, i + 1,
                                 cost2 + rows[i].price * 2 * available,
                                 filled2 + 2 * available)
            ELSE [cost2 |-> cost2 + rows[i].price * (2 * target_volume - filled2),
                  filled2 |-> 2 * target_volume]

\* the two loops: what was taken from each side (doubled) and the totals
PartialVwapFill(depth, target_volume) ==
    LET bids == PartialVwapBids(depth.bids, target_volume, 1, 0, 0)
        asks == PartialVwapAsks(depth.asks, target_volume, 1,
                                bids.cost2, bids.filled2)
    IN [bid_volume2 |-> bids.filled2,
        ask_volume2 |-> asks.filled2 - bids.filled2,
        cost2 |-> asks.cost2,
        filled2 |-> asks.filled2]

calculate_partial_vwap(depth, target_volume) ==
    LET fill == PartialVwapFill(depth, target_volume)
    IN IF fill.filled2 = 0 THEN <<0, 1>> ELSE Frac(fill.cost2, fill.filled2)

\* mutant of calculate_volume_imbalance_at_levels: the difference is set
\* against the bid volume alone
calculate_volume_imbalance_at_levelsBidOnly(levels) ==
    [level_count \in levels |->
        LET depth == get_depth(level_count)
        IN IF depth.total_bid_volume > 0
           THEN Frac(depth.total_bid_volume - depth.total_ask_volume,
                     depth.total_bid_volume)
           ELSE <<0, 1>>]

\* DepthAnalyzer.calculate_volume_imbalance_at_levels(levels): the
\* dictionary level_count -> imbalance, for the set of the listed counts
calculate_volume_imbalance_at_levels(levels) ==
    [level_count \in levels |->
        LET depth == get_depth(level_count)
            total == depth.total_bid_volume + depth.total_ask_volume
        IN IF total > 0
           THEN Frac(depth.total_bid_volume - depth.total_ask_volume, total)
           ELSE <<0, 1>>]

\* ---- books deep enough for the resilience score: three levels and more
\* five bid levels of equal quantity, and the same levels with the quantity
\* gathered at the best one
UniformBids == <<<<20, 5>>, <<18, 5>>, <<16, 5>>, <<14, 5>>, <<12, 5>>>>
ConcentratedBids == <<<<20, 20>>, <<18, 1>>, <<16, 1>>, <<14, 1>>, <<12, 1>>>>

\* the bid lists of an update_bids call: none, two levels, three entries at
\* one price, and the two five-level lists
ResilienceBidLists ==
    {<<>>, <<<<20, 5>>, <<18, 5>>>>, <<<<20, 5>>, <<20, 5>>, <<20, 5>>>>,
     UniformBids, ConcentratedBids}

\* the ask lists of an update_asks call: none, two, three and four levels
ResilienceAskLists ==
    {<<>>, <<<<22, 1>>, <<24, 1>>>>, <<<<22, 3>>, <<24, 3>>, <<26, 3>>>>,
     <<<<22, 8>>, <<24, 1>>, <<26, 2>>, <<28, 1>>>>}

ResilienceUpdateBids == \E bids \in ResilienceBidLists : update_bids(bids)
ResilienceUpdateAsks == \E asks \in ResilienceAskLists : update_asks(asks)

ResilienceNext == ResilienceUpdateBids \/ ResilienceUpdateAsks

ResilienceSpec == Init /\ [][ResilienceNext]_vars

\* ------------------------------------------------------- SpreadAnalyzer
\* arithmetic of fractions, every result in lowest terms
\* the sum, the difference and the product are formed over the least
\* common denominator, and after cancelling across, to keep the integers
\* small
FracAdd(f, g) == Reduced(<<Over(f, g) + Over(g, f), Lcm(f[2], g[2])>>)
FracSub(f, g) == Reduced(<<Over(f, g) - Over(g, f), Lcm(f[2], g[2])>>)
FracMul(f, g) ==
    LET c == Gcd(Abs(f[1]), g[2])
        e == Gcd(Abs(g[1]), f[2])
    IN Reduced(<<(f[1] \div c) * (g[1] \div e), (f[2] \div e) * (g[2] \div c)>>)

RECURSIVE FracSum(_)
FracSum(fs) ==
    IF fs = <<>> THEN <<0, 1>>
    ELSE IF Len(fs) = 1 THEN fs[1]
    ELSE FracAdd(FracSum(SubSeq(fs, 1, Len(fs) \div 2)),
                 FracSum(SubSeq(fs, Len(fs) \div 2 + 1, Len(fs))))

\* np.mean of a non-empty list
Mean(fs) == FracMul(FracSum(fs), <<1, Len(fs)>>)

\* np.std(fs) is the square root of this number: the mean of the squares
\* less the square of the mean.  A standard deviation is held as the
\* record [sqrt_of |-> variance].
Variance(fs) ==
    FracSub(Mean([i \in DOMAIN fs |-> FracMul(fs[i], fs[i])]),
            FracMul(Mean(fs), Mean(fs)))

\* list[-n:]
LastN(list, n) ==
    IF Len(list) <= n THEN list ELSE SubSeq(list, Len(list) - n + 1, Len(list))

\* SpreadAnalyzer.__init__: max_history
max_history == 1000
\* _detect_wide_spread: the records it needs, and the threshold in bps
WideSpreadWindow == 10
WideSpreadBps == 50
\* calculate_all_metrics: the records the spread volatility is taken over
VolatilityWindow == 100

\* SpreadMetrics(): the dataclass with its defaults
SpreadMetrics ==
    [absolute_spread |-> 0, relative_spread |-> <<0, 1>>, spread_bps |-> <<0, 1>>,
     effective_spread |-> 0, price_impact |-> <<0, 1>>,
     spread_volatility |-> [sqrt_of |-> <<0, 1>>], is_wide_spread |-> FALSE]

\* SpreadAnalyzer.calculate_price_impact(quantity=1.0); np.sqrt(1.0) is 1
calculate_price_impact ==
    IF ~Truthy(mid_price) THEN <<0, 1>>
    ELSE LET depth == get_depth(10)
             bid_liquidity == SumQuantity(depth.bids)
             ask_liquidity == SumQuantity(depth.asks)
         IN IF depth.bids = <<>> \/ depth.asks = <<>> THEN <<0, 1>>
            ELSE IF bid_liquidity + ask_liquidity = 0 THEN <<0, 1>>
            ELSE IF get_spread = None THEN <<0, 1>>
            ELSE LET lambda_est == Frac(2 * Val(get_spread),
                                        (bid_liquidity + ask_liquidity) * Val(mid_price))
                 IN FracMul(lambda_est, <<Val(mid_price), 1>>)

\* mutant of _detect_wide_spread: no minimum of records; the mean and the
\* deviation of no record are nan, and a comparison with nan is false
detect_wide_spreadNoMinimum(past, metrics) ==
    LET recent == [i \in DOMAIN LastN(past, WideSpreadWindow) |->
                       LastN(past, WideSpreadWindow)[i].spread_bps]
    IN IF recent # <<>>
          /\ FracLess(<<0, 1>>, Variance(recent))
          /\ FracLess(<<0, 1>>, FracSub(metrics.spread_bps, Mean(recent)))
          /\ FracLess(FracMul(<<9, 1>>, Variance(recent)),
                      FracMul(FracSub(metrics.spread_bps, Mean(recent)),
                              FracSub(metrics.spread_bps, Mean(recent))))
       THEN TRUE
       ELSE FracLess(<<WideSpreadBps, 1>>, metrics.spread_bps)

\* mutant of _detect_wide_spread: the three sigma test made without asking
\* for a deviation above 0
detect_wide_spreadAnyDeviation(past, metrics) ==
    IF Len(past) < WideSpreadWindow THEN FALSE
    ELSE LET recent == [i \in DOMAIN LastN(past, WideSpreadWindow) |->
                            LastN(past, WideSpreadWindow)[i].spread_bps]
             excess == FracSub(metrics.spread_bps, Mean(recent))
         IN IF /\ FracLess(<<0, 1>>, excess)
               /\ FracLess(FracMul(<<9, 1>>, Variance(recent)),
                           FracMul(excess, excess))
            THEN TRUE
            ELSE FracLess(<<WideSpreadBps, 1>>, metrics.spread_bps)

\* SpreadAnalyzer._detect_wide_spread(metrics) with self.history = past.
\* spread_bps > avg + 3 * std, for std >= 0, is spread_bps - avg > 0 and
\* (spread_bps - avg)^2 > 9 * variance; std > 0 is variance > 0.
detect_wide_spread(past, metrics) ==
    IF Len(past) < WideSpreadWindow THEN FALSE
    ELSE LET recent == [i \in DOMAIN LastN(past, WideSpreadWindow) |->
                            LastN(past, WideSpreadWindow)[i].spread_bps]
             avg_spread == Mean(recent)
             excess == FracSub(metrics.spread_bps, avg_spread)
         IN IF /\ FracLess(<<0, 1>>, Variance(recent))
               /\ FracLess(<<0, 1>>, excess)
               /\ FracLess(FracMul(<<9, 1>>, Variance(recent)),
                           FracMul(excess, excess))
            THEN TRUE
            ELSE FracLess(<<WideSpreadBps, 1>>, metrics.spread_bps)

\* the record calculate_all_metrics fills in once it is past its early
\* return: spread and mid price are present
ComputedSpreadMetrics ==
    LET spread == Val(get_spread)
        mid == Val(mid_price)
        spreads == [i \in DOMAIN LastN(history, VolatilityWindow) |->
                       <<LastN(history, VolatilityWindow)[i].absolute_spread, 1>>]
        metrics ==
            [absolute_spread |-> spread,
             relative_spread |-> Reduced(Frac(spread * 100, mid)),
             spread_bps |-> Reduced(Frac(spread * 100 * 100, mid)),
             effective_spread |->
                 IF Truthy(best_bid) /\ Truthy(best_ask)
                 THEN Abs(2 * (mid - (Val(best_bid) + Val(best_ask)) \div 2))
                 ELSE 0,
             price_impact |-> calculate_price_impact,
             spread_volatility |->
                 IF Len(history) > 1 THEN [sqrt_of |-> Variance(spreads)]
                 ELSE [sqrt_of |-> <<0, 1>>],
             is_wide_spread |-> FALSE]
    IN [metrics EXCEPT !.is_wide_spread = detect_wide_spread(history, metrics)]

\* the early return of calculate_all_metrics
SpreadAbsent == get_spread = None \/ mid_price = None \/ Val(mid_price) = 0

\* mutant of the storing: at capacity the newest record is the one removed
StoredDropNewest(past, metrics) ==
    IF Len(Append(past, metrics)) > max_history THEN past
    ELSE Append(past, metrics)

\* self.history.append(metrics), and pop(0) beyond max_history
Stored(past, metrics) ==
    IF Len(Append(past, metrics)) > max_history
    THEN Tail(Append(past, metrics))
    ELSE Append(past, metrics)

\* mutant of calculate_all_metrics: the record of a call that returns early
\* is stored as well
calculate_all_metricsAlwaysStores ==
    /\ calls < MaxCalls
    /\ calls' = calls + 1
    /\ LET metrics == IF SpreadAbsent THEN SpreadMetrics ELSE ComputedSpreadMetrics
       IN /\ spread_returned' = Some(metrics)
          /\ history' = Stored(history, metrics)
    /\ UNCHANGED <<book_vars, liquidity_vars, visualizer_vars, thread_vars>>

\* SpreadAnalyzer.calculate_all_metrics()
calculate_all_metrics ==
    /\ calls < MaxCalls
    /\ calls' = calls + 1
    /\ IF SpreadAbsent
       THEN /\ spread_returned' = Some(SpreadMetrics)
            /\ UNCHANGED history
       ELSE /\ spread_returned' = Some(ComputedSpreadMetrics)
            /\ history' = Stored(history, ComputedSpreadMetrics)
    /\ UNCHANGED <<book_vars, liquidity_vars, visualizer_vars, thread_vars>>

\* ---- the analyzer on a quoted book
\* one bid at 109.89 and asks at 110.11 (a spread of 20 bps) or at 112.11
\* (200 bps), of one lot each, in half ticks of 0.01
QuotedBid == <<<<21978, 1>>>>
NarrowAsk == <<<<22022, 1>>>>
WideAsk == <<<<22422, 1>>>>
SpreadBidLists == {<<>>, QuotedBid}
SpreadAskLists == {NarrowAsk, WideAsk}

\* the record of every call made while the book is QuotedBid / NarrowAsk
\* and no other record is in the history
NarrowRecord ==
    [absolute_spread |-> 44, relative_spread |-> <<1, 5>>, spread_bps |-> <<20, 1>>,
     effective_spread |-> 0, price_impact |-> <<44, 1>>,
     spread_volatility |-> [sqrt_of |-> <<0, 1>>], is_wide_spread |-> FALSE]

\* the analyzer one record short of its capacity: a new book,
\* update_bids(QuotedBid), update_asks(NarrowAsk), and max_history - 1
\* calls of calculate_all_metrics
NearCapacity ==
    /\ bid_prices = RebuildSide(QuotedBid).prices
    /\ bid_levels = RebuildSide(QuotedBid).levels
    /\ ask_prices = RebuildSide(NarrowAsk).prices
    /\ ask_levels = RebuildSide(NarrowAsk).levels
    /\ best_bid = Some(21978)
    /\ best_ask = Some(22022)
    /\ mid_price = Some(22000)
    /\ update_count = 2
    /\ last_call = [method |-> "update_asks", entries |-> NarrowAsk]
    /\ repeated = FALSE
    /\ snapshots = {"update_bids", "update_asks"}
    /\ history = [i \in 1..(max_history - 1) |-> NarrowRecord]
    /\ spread_returned = Some(NarrowRecord)
    /\ calls = 0
    /\ LiquidityAnalyzer_init(None, None)
    /\ OrderBookVisualizer_init
    /\ Threads_init

SpreadInit == Init \/ NearCapacity

SpreadUpdateBids == \E bids \in SpreadBidLists : update_bids(bids)
SpreadUpdateAsks == \E asks \in SpreadAskLists : update_asks(asks)

SpreadNext == SpreadUpdateBids \/ SpreadUpdateAsks \/ calculate_all_metrics

SpreadSpec == SpreadInit /\ [][SpreadNext]_vars

\* ---- the analyzer on a book quoted at three spreads
\* one bid at 127.92 and asks at 128.08 (a spread of 12.5 bps), at 128.33
\* (32 bps) or at 132.08 (320 bps), of one lot each, in half ticks of 0.01
TightBid == <<<<25584, 1>>>>
TightAsk == <<<<25616, 1>>>>
RaisedAsk == <<<<25666, 1>>>>
FarAsk == <<<<26416, 1>>>>
WideSpreadBidLists == {<<>>, TightBid}
WideSpreadAskLists == {TightAsk, RaisedAsk, FarAsk}

\* the record of every call made while the book is TightBid / TightAsk and
\* no other record is in the history
TightRecord ==
    [absolute_spread |-> 32, relative_spread |-> <<1, 8>>, spread_bps |-> <<25, 2>>,
     effective_spread |-> 0, price_impact |-> <<32, 1>>,
     spread_volatility |-> [sqrt_of |-> <<0, 1>>], is_wide_spread |-> FALSE]

\* the analyzer with the records _detect_wide_spread needs: a new book,
\* update_bids(TightBid), update_asks(TightAsk), and WideSpreadWindow calls
\* of calculate_all_metrics
TenRecords ==
    /\ bid_prices = RebuildSide(TightBid).prices
    /\ bid_levels = RebuildSide(TightBid).levels
    /\ ask_prices = RebuildSide(TightAsk).prices
    /\ ask_levels = RebuildSide(TightAsk).levels
    /\ best_bid = Some(25584)
    /\ best_ask = Some(25616)
    /\ mid_price = Some(25600)
    /\ update_count = 2
    /\ last_call = [method |-> "update_asks", entries |-> TightAsk]
    /\ repeated = FALSE
    /\ snapshots = {"update_bids", "update_asks"}
    /\ history = [i \in 1..WideSpreadWindow |-> TightRecord]
    /\ spread_returned = Some(TightRecord)
    /\ calls = 0
    /\ LiquidityAnalyzer_init(None, None)
    /\ OrderBookVisualizer_init
    /\ Threads_init

\* the analyzer after a steady spread, a tighter one and a requote: a new
\* book, update_bids(QuotedBid), update_asks(NarrowAsk), 9 calls of
\* calculate_all_metrics, update_bids(TightBid), update_asks(TightAsk), one
\* call, and update_asks(RaisedAsk)
SteadyThenRaised ==
    /\ bid_prices = RebuildSide(TightBid).prices
    /\ bid_levels = RebuildSide(TightBid).levels
    /\ ask_prices = RebuildSide(RaisedAsk).prices
    /\ ask_levels = RebuildSide(RaisedAsk).levels
    /\ best_bid = Some(25584)
    /\ best_ask = Some(25666)
    /\ mid_price = Some(25625)
    /\ update_count = 5
    /\ last_call = [method |-> "update_asks", entries |-> RaisedAsk]
    /\ repeated = FALSE
    /\ snapshots = {"update_bids", "update_asks"}
    /\ history = [i \in 1..WideSpreadWindow |->
                     IF i < WideSpreadWindow THEN NarrowRecord ELSE TightRecord]
    /\ spread_returned = Some(TightRecord)
    /\ calls = 0
    /\ LiquidityAnalyzer_init(None, None)
    /\ OrderBookVisualizer_init
    /\ Threads_init

WideSpreadInit == Init \/ TenRecords \/ SteadyThenRaised

WideSpreadUpdateBids == \E bids \in WideSpreadBidLists : update_bids(bids)
WideSpreadUpdateAsks == \E asks \in WideSpreadAskLists : update_asks(asks)

WideSpreadNext ==
    WideSpreadUpdateBids \/ WideSpreadUpdateAsks \/ calculate_all_metrics

WideSpreadSpec == WideSpreadInit /\ [][WideSpreadNext]_vars

\* -------------------------------------------------- OrderBookVisualizer
\* The first statements of plot_analytics_dashboard and of
\* create_summary_table: spread_analyzer.calculate_all_metrics(), then
\* depth_analyzer.calculate_all_metrics(); what follows builds the figure or
\* the text out of the metrics and assigns no field of the book or of an
\* analyzer.  The call of the spread analyzer is the whole of
\* SpreadAnalyzer.calculate_all_metrics, its append to the history included.
Presented(method) ==
    /\ calls < MaxCalls
    /\ calls' = calls + 1
    /\ IF SpreadAbsent
       THEN /\ spread_returned' = Some(SpreadMetrics)
            /\ UNCHANGED history
       ELSE /\ spread_returned' = Some(ComputedSpreadMetrics)
            /\ history' = Stored(history, ComputedSpreadMetrics)
    /\ figures' = Append(figures,
                         [method |-> method,
                          spread_metrics |-> IF SpreadAbsent THEN SpreadMetrics
                                             ELSE ComputedSpreadMetrics,
                          depth_metrics |-> DepthAnalyzer_calculate_all_metrics])
    /\ UNCHANGED <<book_vars, liquidity_vars, thread_vars>>

\* OrderBookVisualizer.plot_analytics_dashboard(orderbook, spread_analyzer,
\* depth_analyzer, liquidity_analyzer)
plot_analytics_dashboard == Presented("plot_analytics_dashboard")

\* OrderBookVisualizer.create_summary_table(orderbook, spread_analyzer,
\* depth_analyzer, liquidity_analyzer)
create_summary_table == Presented("create_summary_table")

DashboardNext ==
    \/ SpreadUpdateBids
    \/ SpreadUpdateAsks
    \/ calculate_all_metrics
    \/ plot_analytics_dashboard
    \/ create_summary_table

DashboardSpec == SpreadInit /\ [][DashboardNext]_vars

\* ---------------------------------------------------- LiquidityAnalyzer
\* LiquidityAnalyzer.__init__: max_history
liquidity_max_history == 1000

\* list.append(sample), and one pop(0) when the list is beyond max_history
Trimmed(series, sample) ==
    IF Len(Append(series, sample)) > liquidity_max_history
    THEN Tail(Append(series, sample))
    ELSE Append(series, sample)

\* LiquidityAnalyzer.update_history(price, volume)
update_history(price, volume) ==
    /\ fed < MaxSamples
    /\ fed' = fed + 1
    /\ price_history' = Trimmed(price_history, price)
    /\ volume_history' = Trimmed(volume_history, volume)
    /\ UNCHANGED <<book_vars, analyzer_vars, visualizer_vars, thread_vars>>

FracDiv(f, g) == Reduced(Frac(f[1] * g[2], f[2] * g[1]))

\* np.diff(series) / series[:-1]
Returns(series) ==
    [i \in 1..(Len(series) - 1) |->
        Reduced(Frac(series[i + 1] - series[i], series[i]))]

\* np.diff(series)
Differences(series) ==
    [i \in 1..(Len(series) - 1) |-> <<series[i + 1] - series[i], 1>>]

\* np.cov(xs, ys)[0, 1]: the sum of the products of the deviations over
\* one less than the number of observations
Covariance(xs, ys) ==
    LET mean_x == Mean(xs)
        mean_y == Mean(ys)
    IN FracMul(FracSum([i \in DOMAIN xs |->
                   FracMul(FracSub(xs[i], mean_x), FracSub(ys[i], mean_y))]),
               <<1, Len(xs) - 1>>)

\* calculate_kyle_lambda: the default window
KyleWindow == 20

\* LiquidityAnalyzer.calculate_kyle_lambda()
calculate_kyle_lambda ==
    IF Len(price_history) < KyleWindow \/ Len(volume_history) < KyleWindow
    THEN <<0, 1>>
    ELSE LET returns == Returns(LastN(price_history, KyleWindow))
             volume_changes == Differences(LastN(volume_history, KyleWindow))
             covariance == Covariance(returns, volume_changes)
             volume_variance == Variance(volume_changes)
         IN IF volume_variance[1] = 0 THEN <<0, 1>>
            ELSE FracDiv(covariance, volume_variance)

\* calculate_market_impact_models: the levels it reads and its default
\* quantity
ImpactLevels == 10
ImpactQuantity == 100

\* LiquidityAnalyzer.calculate_market_impact_models(quantity): the dict it
\* returns, a function from the names of the models it holds.  The
\* coefficient b of the square root model is spread / (2 * sqrt(total)),
\* held unevaluated, or 0.
calculate_market_impact_models(quantity) ==
    IF ~Truthy(mid_price) THEN [k \in {} |-> 0]
    ELSE LET depth == get_depth(ImpactLevels)
             total_liquidity == depth.total_bid_volume + depth.total_ask_volume
             spread == get_spread
             keys == (IF total_liquidity > 0 THEN {"linear"} ELSE {})
                     \cup (IF spread # None THEN {"sqrt"} ELSE {})
                     \cup {"kyle"}
         IN [k \in keys |->
                CASE k = "linear" ->
                         Reduced(Frac(quantity * Val(mid_price), total_liquidity))
                  [] k = "sqrt" ->
                         [b |-> IF total_liquidity > 0
                                THEN [spread |-> Val(spread),
                                      over_twice_sqrt_of |-> total_liquidity]
                                ELSE 0,
                          times_sqrt_of |-> quantity,
                          times |-> Val(mid_price)]
                  [] OTHER ->
                         FracMul(calculate_kyle_lambda,
                                 <<quantity * Val(mid_price), 1>>)]

\* the samples of a series: prices of 1 and 2 ticks, volumes of 0 to 2 lots
SamplePrices == {2, 4}
SampleVolumes == {0, 1, 2}

\* n samples, alternating between a and b
Alternating(n, a, b) == [i \in 1..n |-> IF i % 2 = 1 THEN a ELSE b]

\* the series an analyzer is constructed with: none, a short one, a
\* window of 20, and series just below, at and beyond max_history
ConstructedPrices ==
    {None, Alternating(3, 2, 4), Alternating(20, 2, 4),
     Alternating(liquidity_max_history - 1, 2, 2),
     Alternating(liquidity_max_history, 2, 4),
     Alternating(liquidity_max_history + 2, 2, 4)}
ConstructedVolumes ==
    {None, Alternating(3, 1, 0), Alternating(20, 1, 2),
     Alternating(liquidity_max_history - 1, 1, 1),
     Alternating(liquidity_max_history, 1, 2),
     Alternating(liquidity_max_history + 2, 1, 2)}

LiquidityInit ==
    /\ OrderBook_init
    /\ SpreadAnalyzer_init
    /\ \E prices \in ConstructedPrices : \E volumes \in ConstructedVolumes :
           LiquidityAnalyzer_init(prices, volumes)
    /\ OrderBookVisualizer_init
    /\ Threads_init

LiquidityNext ==
    \E price \in SamplePrices : \E volume \in SampleVolumes :
        update_history(price, volume)

LiquiditySpec == LiquidityInit /\ [][LiquidityNext]_vars

\* ------------------------------------------------------------ exceptions
\* What a call raises is the name of the exception, "" for a call that
\* returns.  The operations of the code that can raise are the division of
\* Python numbers, the subscript of a dictionary, arithmetic on None, and
\* the reductions of numpy that refuse an empty array; numpy's own division
\* warns and returns inf or nan.
Divide(divisor) == IF divisor = 0 THEN "ZeroDivisionError" ELSE ""

Subscript(dict, key) == IF key \in DOMAIN dict THEN "" ELSE "KeyError"

Arithmetic(operand) == IF operand = None THEN "TypeError" ELSE ""

\* statement; rest
Then(first, rest) == IF first # "" THEN first ELSE rest

\* for price in prices[:levels]: level = level_dict[price]
RECURSIVE SubscriptAll(_, _, _)
SubscriptAll(dict, keys, i) ==
    IF i > Len(keys) THEN ""
    ELSE Then(Subscript(dict, keys[i]), SubscriptAll(dict, keys, i + 1))

\* OrderBook.get_depth(levels)
get_depth_raised(levels) ==
    Then(SubscriptAll(bid_levels, Take(bid_prices, levels), 1),
         SubscriptAll(ask_levels, Take(ask_prices, levels), 1))

\* OrderBook.estimate_vwap(quantity, side)
estimate_vwap_raised(quantity, side) ==
    IF side \notin {"buy", "sell"} THEN "ValueError"
    ELSE Then(IF side = "buy" THEN SubscriptAll(ask_levels, ask_prices, 1)
              ELSE SubscriptAll(bid_levels, bid_prices, 1),
              IF estimate_vwap(quantity, side).filled = 0 THEN ""
              ELSE Divide(estimate_vwap(quantity, side).filled))

\* mutant of estimate_slippage: no test of the mid price before it is used
estimate_slippage_raisedMidUntested(quantity, side) ==
    Then(estimate_vwap_raised(quantity, side),
         IF estimate_vwap(quantity, side).filled = 0 THEN ""
         ELSE Then(Arithmetic(mid_price), Divide(Val(mid_price))))

\* OrderBook.estimate_slippage(quantity, side): vwap - mid or mid - vwap,
\* then slippage_abs / mid
estimate_slippage_raised(quantity, side) ==
    IF ~Truthy(mid_price) THEN ""
    ELSE Then(estimate_vwap_raised(quantity, side),
              IF estimate_vwap(quantity, side).filled = 0 THEN ""
              ELSE Then(Arithmetic(mid_price), Divide(Val(mid_price))))

\* SpreadAnalyzer.calculate_price_impact(): spread / (avg_liquidity *
\* mid_price), with avg_liquidity half the sum of the two liquidities
calculate_price_impact_raised ==
    IF ~Truthy(mid_price) THEN ""
    ELSE Then(get_depth_raised(10),
              LET depth == get_depth(10)
                  liquidity == SumQuantity(depth.bids) + SumQuantity(depth.asks)
              IN IF depth.bids = <<>> \/ depth.asks = <<>> THEN ""
                 ELSE IF liquidity = 0 THEN ""
                 ELSE IF get_spread = None THEN ""
                 ELSE Divide(liquidity * Val(mid_price)))

\* SpreadAnalyzer.calculate_all_metrics(): (spread / mid_price) * 100, the
\* effective spread, the price impact; np.std and _detect_wide_spread run
\* on lists that are not empty
SpreadAnalyzer_calculate_all_metrics_raised ==
    IF SpreadAbsent THEN ""
    ELSE Then(Divide(Val(mid_price)),
         Then(IF Truthy(best_bid) /\ Truthy(best_ask)
              THEN Then(Arithmetic(mid_price),
                        Then(Arithmetic(best_bid), Arithmetic(best_ask)))
              ELSE "",
              calculate_price_impact_raised))

\* calculate_spread_statistics: the default window
StatisticsWindow == 100

\* the spread_bps of history[-window:]
WindowBps(window) ==
    [i \in DOMAIN LastN(history, window) |-> LastN(history, window)[i].spread_bps]

RECURSIVE FracMin(_)
FracMin(fs) ==
    IF Len(fs) = 1 THEN fs[1]
    ELSE LET a == FracMin(SubSeq(fs, 1, Len(fs) \div 2))
             b == FracMin(SubSeq(fs, Len(fs) \div 2 + 1, Len(fs)))
         IN IF FracLeq(a, b) THEN a ELSE b

RECURSIVE FracMax(_)
FracMax(fs) ==
    IF Len(fs) = 1 THEN fs[1]
    ELSE LET a == FracMax(SubSeq(fs, 1, Len(fs) \div 2))
             b == FracMax(SubSeq(fs, Len(fs) \div 2 + 1, Len(fs)))
         IN IF FracLeq(b, a) THEN a ELSE b

\* SpreadAnalyzer.calculate_spread_statistics(window): np.min and np.max
\* raise ValueError on an empty list
calculate_spread_statistics_raised(window) ==
    LET w == IF Len(history) < window THEN Len(history) ELSE window
    IN IF w = 0 THEN ""
       ELSE IF WindowBps(w) = <<>> THEN "ValueError" ELSE ""

\* the dict it returns, a function from its keys: {} for an empty history,
\* else the mean, the deviation and the extremes of the window (the median
\* and the quartiles are not computed here)
calculate_spread_statistics(window) ==
    LET w == IF Len(history) < window THEN Len(history) ELSE window
    IN IF w = 0 THEN [k \in {} |-> <<0, 1>>]
       ELSE [k \in {"mean", "std", "min", "max"} |->
                CASE k = "mean" -> Mean(WindowBps(w))
                  [] k = "std" -> [sqrt_of |-> Variance(WindowBps(w))]
                  [] k = "min" -> FracMin(WindowBps(w))
                  [] OTHER -> FracMax(WindowBps(w))]

\* get_spread_trend: the default periods
TrendPeriods == 20

\* the slope np.polyfit(x, ys, 1) fits to ys over x = 0, 1, ..: the sum of
\* (x - mean x) * y over the sum of (x - mean x)^2, both taken doubled
Slope(ys) ==
    LET n == Len(ys)
        weighted == FracSum([i \in 1..n |-> FracMul(<<2 * (i - 1) - (n - 1), 1>>, ys[i])])
        squares == FracSum([i \in 1..n |->
                       <<(2 * (i - 1) - (n - 1)) * (2 * (i - 1) - (n - 1)), 1>>])
    IN FracDiv(FracMul(<<2, 1>>, weighted), squares)

\* SpreadAnalyzer.get_spread_trend(): np.polyfit raises TypeError on an
\* empty vector
get_spread_trend_raised ==
    IF Len(history) < TrendPeriods THEN ""
    ELSE IF WindowBps(TrendPeriods) = <<>> THEN "TypeError" ELSE ""

get_spread_trend ==
    IF Len(history) < TrendPeriods THEN "insufficient_data"
    ELSE LET slope == Slope(WindowBps(TrendPeriods))
         IN IF FracLess(<<1, 10>>, slope) THEN "increasing"
            ELSE IF FracLess(slope, <<-1, 10>>) THEN "decreasing"
            ELSE "stable"

\* _calculate_vwap_at_depth: the depth percentages 0.1, 0.25, 0.5, 1, 2 and
\* 5, as parts in PartsOfVolume of the total volume
PartsOfVolume == 2000
DepthParts == {2, 5, 10, 20, 40, 100}

\* the rows with every quantity in parts of a lot
InParts(rows) ==
    [i \in DOMAIN rows |-> [rows[i] EXCEPT !.quantity = PartsOfVolume * rows[i].quantity]]

\* _calculate_partial_vwap for one percentage: total_cost / filled_volume
\* unless nothing was filled
partial_vwap_raised(depth, part) ==
    LET fill == PartialVwapFill([bids |-> InParts(depth.bids),
                                 asks |-> InParts(depth.asks)],
                                part * (depth.total_bid_volume + depth.total_ask_volume))
    IN IF fill.filled2 = 0 THEN "" ELSE Divide(fill.filled2)

\* _calculate_book_slope for one side: price_range / volume_sum
side_slope_raised(rows) ==
    IF Len(rows) > 1 /\ SumQuantity(rows) > 0 THEN Divide(SumQuantity(rows)) ELSE ""

\* herfindahl_index(volumes): v / total for every v, unless total is 0
herfindahl_index_raised(rows) ==
    IF SumQuantity(rows) = 0 THEN "" ELSE Divide(SumQuantity(rows))

\* DepthAnalyzer.calculate_all_metrics(): the volume imbalance, the
\* cumulative depth (offsets over the mid price), the vwap at each depth,
\* the slope, the liquidity score (no division) and the resilience
DepthAnalyzer_calculate_all_metrics_raised ==
    Then(get_depth_raised(depth_levels),
         LET depth == get_depth(depth_levels)
             total_volume == depth.total_bid_volume + depth.total_ask_volume
         IN IF depth.bids = <<>> \/ depth.asks = <<>> THEN ""
            ELSE Then(IF total_volume > 0 THEN Divide(total_volume) ELSE "",
                 Then(IF ~Truthy(mid_price) THEN "" ELSE Divide(Val(mid_price)),
                 Then(IF \E part \in DepthParts : partial_vwap_raised(depth, part) # ""
                      THEN "ZeroDivisionError" ELSE "",
                 Then(side_slope_raised(depth.bids),
                 Then(side_slope_raised(depth.asks),
                      IF Len(depth.bids) < 3 \/ Len(depth.asks) < 3 THEN ""
                      ELSE Then(herfindahl_index_raised(depth.bids),
                                herfindahl_index_raised(depth.asks))))))))

\* ---- LiquidityAnalyzer.calculate_all_metrics
\* calculate_lcr: its levels and its default stress volume
LcrLevels == 20
StressVolume == 10000

\* calculate_amihud_ratio(): the mean of |return| / volume over the samples
\* of a volume above 0, in a window of KyleWindow samples
calculate_amihud_ratio ==
    IF Len(price_history) < KyleWindow \/ Len(volume_history) < KyleWindow
    THEN <<0, 1>>
    ELSE LET returns == Returns(LastN(price_history, KyleWindow))
             volumes == Tail(LastN(volume_history, KyleWindow))
             valid == SelectSeq([i \in DOMAIN volumes |-> i],
                                LAMBDA i : volumes[i] > 0)
         IN IF valid = <<>> THEN <<0, 1>>
            ELSE Mean([k \in DOMAIN valid |->
                          FracDiv(<<Abs(returns[valid[k]][1]), returns[valid[k]][2]>>,
                                  <<volumes[valid[k]], 1>>)])

\* calculate_lcr()
calculate_lcr ==
    LET depth == get_depth(LcrLevels)
    IN Reduced(Frac(depth.total_bid_volume + depth.total_ask_volume, StressVolume))

\* calculate_resilience_score(): 50.0 with no factor, else the mean of its
\* factors, which is left unevaluated (two of them hold a square root)
LiquidityAnalyzer_calculate_resilience_score ==
    LET factors ==
            (IF get_depth(ImpactLevels).bids # <<>> /\ get_depth(ImpactLevels).asks # <<>>
             THEN {"concentration"} ELSE {})
            \cup (IF Len(price_history) > 10 THEN {"volatility"} ELSE {})
            \cup (IF volume_history # <<>>
                     /\ FracLess(<<0, 1>>,
                                 Mean([i \in DOMAIN LastN(volume_history, 10) |->
                                          <<LastN(volume_history, 10)[i], 1>>]))
                  THEN {"volume"} ELSE {})
    IN IF factors = {} THEN <<50, 1>> ELSE [mean_of |-> factors]

\* calculate_price_efficiency(): 0.5, or 1 - |variance ratio - 1| clamped
\* by max(0, min(1, efficiency))
calculate_price_efficiency ==
    IF Len(price_history) < KyleWindow THEN <<1, 2>>
    ELSE LET prices == LastN(price_history, KyleWindow)
             returns == Returns(prices)
             returns_2day == [i \in 1..(Len(prices) - 2) |->
                                 Reduced(Frac(prices[i + 2] - prices[i], prices[i]))]
             var_1day == Variance(returns)
             var_2day == FracMul(Variance(returns_2day), <<1, 2>>)
         IN IF FracLess(<<0, 1>>, var_1day)
            THEN LET off == FracSub(FracDiv(var_2day, var_1day), <<1, 1>>)
                     efficiency == FracSub(<<1, 1>>, <<Abs(off[1]), off[2]>>)
                 IN IF FracLess(efficiency, <<0, 1>>) THEN <<0, 1>>
                    ELSE IF FracLess(<<1, 1>>, efficiency) THEN <<1, 1>>
                    ELSE efficiency
            ELSE <<1, 2>>

\* calculate_composite_score: the weights of the scores it averages, in
\* tenths; the scores of kyle_lambda and amihud_ratio are left out when
\* the value is below 0
CompositeWeight ==
    (IF calculate_kyle_lambda[1] >= 0 THEN 3 ELSE 0)
    + (IF calculate_amihud_ratio[1] >= 0 THEN 2 ELSE 0) + 2 + 2 + 1

\* LiquidityAnalyzer.calculate_all_metrics(): the LiquidityMetrics it
\* returns, but for overall_liquidity_score (a weighted mean of scores that
\* hold an exponential)
LiquidityAnalyzer_calculate_all_metrics ==
    [kyle_lambda |-> calculate_kyle_lambda,
     amihud_ratio |-> calculate_amihud_ratio,
     liquidity_coverage_ratio |-> calculate_lcr,
     resilience_score |-> LiquidityAnalyzer_calculate_resilience_score,
     price_efficiency |-> calculate_price_efficiency,
     market_impact_models |-> calculate_market_impact_models(ImpactQuantity)]

\* the divisions of Python numbers in it: total_liquidity / stress_volume,
\* volumes[0] / sum(volumes), 1 / total_liquidity, and the weighted sum over
\* total_weight; the rest is numpy on arrays that are not empty
LiquidityAnalyzer_calculate_all_metrics_raised ==
    Then(get_depth_raised(LcrLevels),
    Then(IF StressVolume <= 0 THEN "" ELSE Divide(StressVolume),
    Then(get_depth_raised(ImpactLevels),
    Then(LET depth == get_depth(ImpactLevels)
         IN IF depth.bids # <<>> /\ depth.asks # <<>>
            THEN Then(IF SumQuantity(depth.bids) > 0
                      THEN Divide(SumQuantity(depth.bids)) ELSE "",
                      IF SumQuantity(depth.asks) > 0
                      THEN Divide(SumQuantity(depth.asks)) ELSE "")
            ELSE "",
    Then(IF ~Truthy(mid_price) THEN ""
         ELSE LET depth == get_depth(ImpactLevels)
                  total_liquidity == depth.total_bid_volume + depth.total_ask_volume
              IN IF total_liquidity > 0 THEN Divide(total_liquidity) ELSE "",
         IF CompositeWeight > 0 THEN Divide(CompositeWeight) ELSE "")))))

\* ---- the three analyzers on one book

\* the series the liquidity analyzer is constructed with, prices and
\* volumes: none, three samples, a window of 20 samples (varied; all equal;
\* of volume 0), and prices without volumes
AnalyticsSeries ==
    {<<None, None>>,
     <<Alternating(3, 2, 4), Alternating(3, 1, 0)>>,
     <<Alternating(KyleWindow, 2, 4), Alternating(KyleWindow, 1, 2)>>,
     <<Alternating(KyleWindow, 2, 2), Alternating(KyleWindow, 1, 1)>>,
     <<Alternating(KyleWindow, 2, 4), Alternating(KyleWindow, 0, 0)>>,
     <<Alternating(KyleWindow, 2, 4), None>>}

\* new analyzers on a new book, with any of these series, or the spread
\* analyzer near its capacity
AnalyticsInit ==
    \/ /\ OrderBook_init
       /\ SpreadAnalyzer_init
       /\ \E series \in AnalyticsSeries :
              LiquidityAnalyzer_init(series[1], series[2])
       /\ OrderBookVisualizer_init
       /\ Threads_init
    \/ NearCapacity

\* the book is quoted, or a side is given an empty snapshot
AnalyticsNext ==
    \/ \E bids \in {<<>>, QuotedBid} : update_bids(bids)
    \/ \E asks \in {<<>>, NarrowAsk, WideAsk} : update_asks(asks)
    \/ calculate_all_metrics

AnalyticsSpec == AnalyticsInit /\ [][AnalyticsNext]_vars

\* the level counts the depth query is asked for
DepthLevels == 0..(MaxEntries + 1)

\* ------------------------------------------------------------- helpers
StrictlyDescending(prices) ==
    \A i \in 1..(Len(prices) - 1) : prices[i] > prices[i + 1]

StrictlyAscending(prices) ==
    \A i \in 1..(Len(prices) - 1) : prices[i] < prices[i + 1]

MaxOf(S) == CHOOSE x \in S : \A y \in S : y <= x
MinOf(S) == CHOOSE x \in S : \A y \in S : x <= y

\* positions of the entries of an argument list that the update keeps
AcceptedAt(entries) ==
    {i \in 1..Len(entries) : entries[i][1] > 0 /\ entries[i][2] > 0}

\* the side the last call rebuilt
CalledBids == last_call.method = "update_bids"
CalledAsks == last_call.method = "update_asks"
LastPrices == IF CalledBids THEN bid_prices ELSE ask_prices
LastLevels == IF CalledBids THEN bid_levels ELSE ask_levels

\* =============================================================== claims

\* C1: after any sequence of update calls the bid price index is strictly
\* descending and the ask price index strictly ascending (no price twice
\* on a side), also when several entries of one call share a price.
C1_StrictOrder ==
    StrictlyDescending(bid_prices) /\ StrictlyAscending(ask_prices)

\* C2: best_bid is absent whenever the bid side is empty, best_ask whenever
\* the ask side is empty, and mid_price whenever either side is empty, also
\* after a populated side was replaced by an empty or all-invalid snapshot.
C2_AbsentWhenEmpty ==
    /\ bid_prices = <<>> => best_bid = None
    /\ ask_prices = <<>> => best_ask = None
    /\ (bid_prices = <<>> \/ ask_prices = <<>>) => mid_price = None

\* C3: whenever the bid side is non-empty best_bid is the maximum price
\* among the bid levels, and whenever the ask side is non-empty best_ask is
\* the minimum price among the ask levels.
C3_BestIsExtreme ==
    /\ bid_prices # <<>> => best_bid = Some(MaxOf(DOMAIN bid_levels))
    /\ ask_prices # <<>> => best_ask = Some(MinOf(DOMAIN ask_levels))

C3_Witness ==
    /\ Cardinality(DOMAIN bid_levels) >= 2
    /\ Cardinality(DOMAIN ask_levels) >= 2
    /\ best_bid = Some(bid_prices[1])
    /\ best_ask = Some(ask_prices[1])

\* C4: if mid_price is present then best_bid and best_ask are present and
\* mid_price is the mean of the best_bid and best_ask cached now; it is
\* never left at a value computed from an earlier best_bid or best_ask.
C4_MidIsMeanOfCached ==
    mid_price # None =>
        /\ best_bid # None
        /\ best_ask # None
        /\ 2 * Val(mid_price) = Val(best_bid) + Val(best_ask)

\* both bests were cached, and a later update moved best_bid
C4_Witness ==
    /\ mid_price # None
    /\ update_count >= 3
    /\ CalledBids
    /\ bid_prices # <<>>
    /\ Val(best_bid) # Val(best_ask)

\* the accepted entries of the last call that carry price p, in call order
AcceptedWithPrice(p) ==
    {i \in AcceptedAt(last_call.entries) : last_call.entries[i][1] = p}

RECURSIVE SumOfEntries(_, _)
SumOfEntries(entries, positions) ==
    IF positions = {} THEN 0
    ELSE LET i == CHOOSE j \in positions : TRUE
         IN entries[i][2] + SumOfEntries(entries, positions \ {i})

\* the rows of the rebuilt side that the full-depth query reports
LastRows ==
    IF CalledBids THEN get_depth(MaxEntries).bids ELSE get_depth(MaxEntries).asks

\* C5: when one update call carries several valid entries of one price, the
\* side holds one PriceLevel for that price with all of them as separate
\* orders and total_quantity their sum, and get_depth reports the level once
\* with order_count the number of entries.
C5_SharedPriceAggregated ==
    (CalledBids \/ CalledAsks) =>
        \A p \in Prices :
            Cardinality(AcceptedWithPrice(p)) >= 2 =>
                /\ p \in DOMAIN LastLevels
                /\ Len(LastLevels[p].orders) = Cardinality(AcceptedWithPrice(p))
                /\ LastLevels[p].total_quantity =
                       SumOfEntries(last_call.entries, AcceptedWithPrice(p))
                /\ Cardinality({i \in DOMAIN LastRows : LastRows[i].price = p}) = 1
                /\ \A i \in DOMAIN LastRows :
                       LastRows[i].price = p =>
                           LastRows[i].order_count = Cardinality(AcceptedWithPrice(p))

\* C6: get_spread returns a value only when both sides are populated, and
\* then best_ask - best_bid; when the bid side or the ask side is empty it
\* returns None.
C6_SpreadOnlyWhenPopulated ==
    /\ get_spread # None => (bid_prices # <<>> /\ ask_prices # <<>>)
    /\ get_spread # None => Val(get_spread) = Val(best_ask) - Val(best_bid)
    /\ (bid_prices = <<>> \/ ask_prices = <<>>) => get_spread = None

\* C7: after update_bids(E) / update_asks(E) the side holds a level for an
\* entry of E if and only if the entry has price > 0 and quantity > 0: the
\* index has one slot per such entry, the levels are at exactly their
\* prices, and every level of the book has positive price and positive
\* total_quantity.
C7_OnlyPositiveEntriesKept ==
    /\ (CalledBids \/ CalledAsks) =>
        /\ Len(LastPrices) = Cardinality(AcceptedAt(last_call.entries))
        /\ \A p \in Prices :
               (p \in DOMAIN LastLevels) <=> (AcceptedWithPrice(p) # {})
        /\ \A i \in 1..Len(LastPrices) : LastPrices[i] \in DOMAIN LastLevels
    /\ \A p \in DOMAIN bid_levels :
           p > 0 /\ bid_levels[p].price = p /\ bid_levels[p].total_quantity > 0
    /\ \A p \in DOMAIN ask_levels :
           p > 0 /\ ask_levels[p].price = p /\ ask_levels[p].total_quantity > 0

\* the last call mixed an entry that is kept with entries that are dropped
\* for their price and for their quantity
C7_Witness ==
    /\ CalledBids
    /\ AcceptedAt(last_call.entries) # {}
    /\ \E i \in 1..Len(last_call.entries) :
           last_call.entries[i][1] <= 0 \/ last_call.entries[i][2] <= 0
    /\ bid_prices # <<>>

\* the caches of a book that was constructed and then received only one
\* update_bids and one update_asks, with the snapshots that built the
\* present sides
FreshCaches == UpdateCaches(bid_prices, ask_prices, None, None, None)

\* C8: an update replaces the named side wholesale: after update_bids(E) the
\* bid index and levels are a function of E alone (likewise update_asks), so
\* two books with different earlier updates but the same last update_bids(E)
\* and update_asks(F) answer best_bid, best_ask, mid_price, get_spread and
\* get_depth identically.  The sides being a function of the last snapshot
\* of each side, the second book is taken to be the one that received
\* nothing but these two snapshots; get_depth reads the sides only.
C8_AnswersDependOnLastSnapshotsOnly ==
    /\ CalledBids =>
           /\ bid_prices = RebuildSide(sorted(last_call.entries, TRUE)).prices
           /\ bid_levels = RebuildSide(sorted(last_call.entries, TRUE)).levels
    /\ CalledAsks =>
           /\ ask_prices = RebuildSide(sorted(last_call.entries, FALSE)).prices
           /\ ask_levels = RebuildSide(sorted(last_call.entries, FALSE)).levels
    /\ snapshots = {"update_bids", "update_asks"} =>
           /\ best_bid = FreshCaches.best_bid
           /\ best_ask = FreshCaches.best_ask
           /\ mid_price = FreshCaches.mid_price
           /\ get_spread =
                  IF Truthy(FreshCaches.best_bid) /\ Truthy(FreshCaches.best_ask)
                  THEN Some(Val(FreshCaches.best_ask) - Val(FreshCaches.best_bid))
                  ELSE None

\* C9: applying update_bids(E) (or update_asks(E)) a second time in a row
\* leaves best_bid, best_ask, mid_price and get_depth(n) for every n as they
\* were after the first application.
C9_RepeatedUpdateIdempotent ==
    [][(repeated' /\ update_count' = update_count + 1) =>
          /\ best_bid' = best_bid
          /\ best_ask' = best_ask
          /\ mid_price' = mid_price
          /\ \A n \in DepthLevels :
                 DepthOf(bid_prices', bid_levels', ask_prices', ask_levels', n)
                     = get_depth(n)]_vars

\* a non-empty snapshot was applied twice in a row to a book with both
\* sides populated
C9_Witness ==
    /\ repeated
    /\ AcceptedAt(last_call.entries) # {}
    /\ bid_prices # <<>>
    /\ ask_prices # <<>>

\* C10: update_bids changes nothing on the ask side (index, levels, cached
\* best_ask), update_asks nothing on the bid side, and each update call
\* increments update_count by exactly 1, also for an empty snapshot.
C10_OtherSideUnchanged ==
    [][/\ last_call'.method = "update_bids" =>
              /\ ask_prices' = ask_prices
              /\ ask_levels' = ask_levels
              /\ best_ask' = best_ask
              /\ update_count' = update_count + 1
       /\ last_call'.method = "update_asks" =>
              /\ bid_prices' = bid_prices
              /\ bid_levels' = bid_levels
              /\ best_bid' = best_bid
              /\ update_count' = update_count + 1]_vars

\* an empty bid snapshot arrived at a book whose ask side was populated
C10_Witness ==
    /\ CalledBids
    /\ last_call.entries = <<>>
    /\ ask_prices # <<>>
    /\ best_ask = Some(ask_prices[1])
    /\ update_count >= 2

RECURSIVE SumOfLevels(_, _)
SumOfLevels(level_dict, prices) ==
    IF prices = {} THEN 0
    ELSE LET p == CHOOSE x \in prices : TRUE
         IN level_dict[p].total_quantity + SumOfLevels(level_dict, prices \ {p})

\* the liquidity of the side an order of the given side consumes
OpposingLiquidity(side) ==
    IF side = "buy" THEN SumOfLevels(ask_levels, DOMAIN ask_levels)
    ELSE SumOfLevels(bid_levels, DOMAIN bid_levels)

\* C11: for every quantity q >= 0 and side in {buy, sell},
\* estimate_vwap(q, side).filled <= q, and filled = q whenever the sum of
\* total_quantity over the opposing side's levels is >= q.
C11_FilledBounded ==
    \A q \in VwapQuantities : \A side \in {"buy", "sell"} :
        /\ estimate_vwap(q, side).raised = ""
        /\ estimate_vwap(q, side).filled <= q
        /\ OpposingLiquidity(side) >= q => estimate_vwap(q, side).filled = q

\* two ask levels of 1 and 2 lots: an order for 2 lots takes the first whole
\* and part of the second, an order for 5 lots exhausts the side
C11_Witness ==
    /\ ask_prices = <<2, 4>>
    /\ estimate_vwap(2, "buy").filled = 2
    /\ estimate_vwap(2, "buy").vwap = <<6, 2>>
    /\ estimate_vwap(5, "buy").filled = 3

\* C12: estimate_vwap with a side other than 'buy' or 'sell' fails with
\* ValueError for every book state and every q and returns no result (the
\* book is not touched: the method assigns to no field of the book).
C12_InvalidSideRaises ==
    \A q \in VwapQuantities : \A side \in Sides \ {"buy", "sell"} :
        estimate_vwap(q, side) = [raised |-> "ValueError"]

\* both sides are populated, so an unvalidated walk would have filled
C12_Witness ==
    /\ bid_prices # <<>>
    /\ ask_prices # <<>>
    /\ estimate_vwap(1, "hold").raised = "ValueError"
    /\ estimate_vwap(1, "sell").filled = 1

\* C13: estimate_slippage with a side other than 'buy' or 'sell' is
\* rejected with an invalid-argument error in every book state, also when
\* mid_price is absent; it never returns a zero result for an invalid side.
C13_SlippageRejectsInvalidSide ==
    \A q \in VwapQuantities : \A side \in Sides \ {"buy", "sell"} :
        estimate_slippage(q, side).raised = "ValueError"

MinNat(a, b) == IF a < b THEN a ELSE b

\* rows are the first min(levels, number of levels) levels of level_dict,
\* nearest to the touch first (better(p, q): p is nearer than q)
TopLevels(rows, level_dict, levels, better(_, _)) ==
    /\ Len(rows) = MinNat(levels, Cardinality(DOMAIN level_dict))
    /\ \A i \in 1..Len(rows) :
           /\ rows[i].price \in DOMAIN level_dict
           /\ rows[i].quantity = level_dict[rows[i].price].total_quantity
           /\ rows[i].order_count = Len(level_dict[rows[i].price].orders)
           /\ \A j \in (i + 1)..Len(rows) : better(rows[i].price, rows[j].price)
           /\ \A p \in DOMAIN level_dict :
                  better(p, rows[i].price) =>
                      \E j \in 1..Len(rows) : rows[j].price = p

Higher(p, q) == p > q
Lower(p, q) == p < q

\* C14: get_depth(levels), levels >= 0, returns for each side exactly the
\* first min(levels, number of levels on that side) price levels, nearest
\* to the touch first, each with the level's total_quantity and order
\* count, and total_bid_volume / total_ask_volume the sum of the quantities
\* of the returned levels of the side.
C14_DepthIsTopLevels ==
    \A n \in DepthLevels :
        /\ TopLevels(get_depth(n).bids, bid_levels, n, Higher)
        /\ TopLevels(get_depth(n).asks, ask_levels, n, Lower)
        /\ get_depth(n).total_bid_volume = SumQuantity(get_depth(n).bids)
        /\ get_depth(n).total_ask_volume = SumQuantity(get_depth(n).asks)

\* the level counts the imbalance is asked for, the analyzer's own included
ImbalanceLevels == DepthLevels \cup {depth_levels}

InUnitRange(f) == FracLeq(<<0 - 1, 1>>, f) /\ FracLeq(f, <<1, 1>>)

\* C18: every volume imbalance the depth analyzer reports, in
\* calculate_all_metrics and for every level count of
\* calculate_volume_imbalance_at_levels, lies between -1 and 1, and it is 0
\* when the combined volume of the queried depth is 0.
C18_ImbalanceInRange ==
    /\ InUnitRange(DepthAnalyzer_calculate_all_metrics.volume_imbalance)
    /\ get_depth(depth_levels).total_bid_volume
           + get_depth(depth_levels).total_ask_volume = 0
       => DepthAnalyzer_calculate_all_metrics.volume_imbalance = <<0, 1>>
    /\ \A n \in ImbalanceLevels :
           /\ InUnitRange(calculate_volume_imbalance_at_levels(ImbalanceLevels)[n])
           /\ get_depth(n).total_bid_volume + get_depth(n).total_ask_volume = 0
              => calculate_volume_imbalance_at_levels(ImbalanceLevels)[n] = <<0, 1>>

\* a book with bid volume 1 and ask volume 4: imbalance -3/5 over the whole
\* depth, -1/3 over the best level of each side, 0 over no level
C18_Witness ==
    /\ get_depth(depth_levels).total_bid_volume = 1
    /\ get_depth(depth_levels).total_ask_volume = 4
    /\ DepthAnalyzer_calculate_all_metrics.volume_imbalance = <<0 - 3, 5>>
    /\ calculate_volume_imbalance_at_levels({0, 1})[1] = <<0 - 1, 3>>
    /\ calculate_volume_imbalance_at_levels({0, 1})[0] = <<0, 1>>

\* C19: the total bid and ask volumes of calculate_all_metrics are the
\* volumes of the depth over depth_levels levels, its volume imbalance is
\* (bid - ask) / (bid + ask) of them, and it equals what
\* calculate_volume_imbalance_at_levels reports for depth_levels, books
\* with one empty side included.
C19_MetricsAgreeWithImbalanceAtLevels ==
    LET m == DepthAnalyzer_calculate_all_metrics
        bidVol == get_depth(depth_levels).total_bid_volume
        askVol == get_depth(depth_levels).total_ask_volume
    IN /\ m.total_bid_volume = bidVol
       /\ m.total_ask_volume = askVol
       /\ bidVol + askVol > 0
          => FracEq(m.volume_imbalance, <<bidVol - askVol, bidVol + askVol>>)
       /\ FracEq(m.volume_imbalance,
                 calculate_volume_imbalance_at_levels({depth_levels})[depth_levels])

\* the number of price levels among the first `levels` entries of a side
LevelsWithin(prices, levels) ==
    Cardinality({prices[i] : i \in 1..MinNat(Len(prices), levels)})

\* the resilience calculate_all_metrics reports when the bid side of the
\* book is replaced by `bids` and the asks are left as they are
ResilienceWithBids(bids) ==
    LET side == RebuildSide(sorted(bids, TRUE))
    IN DepthMetricsOf(DepthOf(side.prices, side.levels, ask_prices, ask_levels,
                              depth_levels)).depth_resilience

ResilienceInRange(score) == FracLeq(<<0, 1>>, score) /\ FracLeq(score, <<100, 1>>)

\* C20: the depth_resilience of calculate_all_metrics lies in [0, 100], is
\* exactly 0 whenever a side has fewer than 3 price levels within the
\* queried depth, and, the asks being the same (three levels or more), is
\* strictly higher for the uniform bid quantities [5,5,5,5,5] than for the
\* concentrated ones [20,1,1,1,1].
C20_ResilienceScore ==
    LET score == DepthAnalyzer_calculate_all_metrics.depth_resilience
    IN /\ ResilienceInRange(score)
       /\ (\/ LevelsWithin(bid_prices, depth_levels) < 3
           \/ LevelsWithin(ask_prices, depth_levels) < 3) => score = <<0, 1>>
       /\ LevelsWithin(ask_prices, depth_levels) >= 3
          => FracLess(ResilienceWithBids(ConcentratedBids),
                      ResilienceWithBids(UniformBids))

\* a step of calculate_all_metrics
SpreadCall == calls' = calls + 1

\* the history after one more record: the oldest one gone at capacity
Appended(past, metrics) ==
    IF Len(past) < max_history THEN Append(past, metrics)
    ELSE Append(Tail(past), metrics)

\* C15: the history of the spread analyzer never holds more than
\* max_history (1000) records; a call that stores a record appends it at
\* the end and, once the history is full, evicts exactly the oldest record;
\* no other step changes the history.
C15_HistoryBoundedFifo ==
    /\ [](Len(history) <= max_history)
    /\ [][IF SpreadCall /\ ~SpreadAbsent
          THEN history' = Appended(history, Val(spread_returned'))
          ELSE history' = history]_vars

\* a full history whose last three records are of the wide quote: the
\* third of them was stored by evicting the oldest record
C15_Witness ==
    /\ Len(history) = max_history
    /\ history[max_history - 2].spread_bps = <<200, 1>>
    /\ history[max_history] = Val(spread_returned)
    /\ history[1] = NarrowRecord

\* C16 as stated: every call of calculate_all_metrics stores one record,
\* so the history grows by exactly one per call until capacity, also when
\* the spread or the mid price of the book is absent.
C16_EveryCallStores ==
    [][SpreadCall => Len(history') = Len(Appended(history, SpreadMetrics))]_vars

\* C16, amended: a call made while the spread and the mid price are present
\* (and the mid price is not 0) stores the record it returns, the history
\* growing by exactly one until capacity; a call made while the spread or
\* the mid price is absent returns the default record and leaves the
\* history as it was.
C16_CallStoresWhenSpreadPresent ==
    [][SpreadCall =>
          IF SpreadAbsent
          THEN /\ history' = history
               /\ spread_returned' = Some(SpreadMetrics)
          ELSE /\ Len(history') = Len(Appended(history, SpreadMetrics))
               /\ history'[Len(history')] = Val(spread_returned')]_vars

\* calls on a book with bids and no ask yet: defaults returned, nothing stored
C16_Witness ==
    /\ calls >= 1
    /\ bid_prices # <<>>
    /\ ask_prices = <<>>
    /\ spread_returned = Some(SpreadMetrics)
    /\ history = <<>>

\* C17: a call of calculate_all_metrics made while the history holds fewer
\* than 10 records returns is_wide_spread false, whatever the spread in
\* basis points, above 50 bps included.
C17_NotWideBelowTenRecords ==
    [][SpreadCall /\ Len(history) < WideSpreadWindow
          => Val(spread_returned').is_wide_spread = FALSE]_vars

\* a call at 200 bps stored as one of fewer than 10 records, not flagged
C17_Witness ==
    /\ spread_returned # None
    /\ Val(spread_returned).spread_bps = <<200, 1>>
    /\ Val(spread_returned).is_wide_spread = FALSE
    /\ Len(history) \in 1..(WideSpreadWindow - 1)
    /\ history[Len(history)] = Val(spread_returned)

\* C29: for every reachable book, every quantity q >= 0 and side in
\* {buy, sell}, estimate_vwap returns filled + remaining = q and
\* remaining >= 0, the zero-fill result of an empty opposing side included.
C29_FilledPlusRemaining ==
    \A q \in VwapQuantities : \A side \in {"buy", "sell"} :
        /\ estimate_vwap(q, side).raised = ""
        /\ estimate_vwap(q, side).filled + estimate_vwap(q, side).remaining = q
        /\ estimate_vwap(q, side).remaining >= 0

\* one bid of one lot and no ask: a buy of 3 lots fills nothing and leaves
\* 3, a sell of 3 lots fills 1 and leaves 2
C29_Witness ==
    /\ ask_prices = <<>>
    /\ bid_prices = <<2>>
    /\ estimate_vwap(3, "buy") =
           [raised |-> "", vwap |-> <<0, 1>>, filled |-> 0, remaining |-> 3]
    /\ estimate_vwap(3, "sell").filled = 1
    /\ estimate_vwap(3, "sell").remaining = 2

\* the result estimate_slippage returns for "no slippage"
ZeroSlippage ==
    [raised |-> "", slippage_bps |-> <<0, 1>>, slippage_abs |-> <<0, 1>>]

\* the cached best bid is not above the cached best ask
NotCrossed ==
    best_bid = None \/ best_ask = None \/ Val(best_bid) <= Val(best_ask)

\* C30: in every reachable book whose cached best_bid <= best_ask,
\* estimate_slippage(q, side) for q > 0 and side in {buy, sell} returns
\* slippage_abs >= 0 and slippage_bps >= 0, and it returns the zero result
\* when mid_price is absent or nothing is filled.
C30_SlippageNonNegative ==
    NotCrossed =>
        \A q \in VwapQuantities \ {0} : \A side \in {"buy", "sell"} :
            /\ estimate_slippage(q, side).raised = ""
            /\ FracLeq(<<0, 1>>, estimate_slippage(q, side).slippage_abs)
            /\ FracLeq(<<0, 1>>, estimate_slippage(q, side).slippage_bps)
            /\ (mid_price = None \/ estimate_vwap(q, side).filled = 0)
               => estimate_slippage(q, side) = ZeroSlippage

\* bid at 1, asks at 1 and 2 (mid 1): a buy of 2 lots pays 3/2 on average,
\* half a tick above the mid price; a sell of 1 lot has no slippage
C30_Witness ==
    /\ best_bid = Some(2)
    /\ best_ask = Some(2)
    /\ ask_prices = <<2, 4>>
    /\ bid_prices = <<2>>
    /\ estimate_slippage(2, "buy").slippage_abs = <<2, 2>>
    /\ estimate_slippage(1, "sell").slippage_abs = <<0, 1>>

\* the levels of the side an order of the given side consumes
OpposingLevels(side) == IF side = "buy" THEN ask_levels ELSE bid_levels

\* the levels priced better than p for an order of the given side
BetterLevels(side, p) ==
    {x \in DOMAIN OpposingLevels(side) : IF side = "buy" THEN x < p ELSE x > p}

\* what a walk from the best price outward takes from the level at p: the
\* level whole while the levels before it leave that much of q, else what
\* they leave
Consumed(side, q, p) ==
    LET before == SumOfLevels(OpposingLevels(side), BetterLevels(side, p))
        available == OpposingLevels(side)[p].total_quantity
    IN IF q - before <= 0 THEN 0
       ELSE IF q - before < available THEN q - before
       ELSE available

RECURSIVE ConsumedCost(_, _, _)
ConsumedCost(side, q, prices) ==
    IF prices = {} THEN 0
    ELSE LET p == CHOOSE x \in prices : TRUE
         IN p * Consumed(side, q, p) + ConsumedCost(side, q, prices \ {p})

RECURSIVE ConsumedQuantity(_, _, _)
ConsumedQuantity(side, q, prices) ==
    IF prices = {} THEN 0
    ELSE LET p == CHOOSE x \in prices : TRUE
         IN Consumed(side, q, p) + ConsumedQuantity(side, q, prices \ {p})

\* C25: for side in {buy, sell} and q > 0, estimate_vwap consumes the
\* levels of the opposing side from the best price outward, each level
\* whole before the next is touched and at most the last one in part:
\* filled is the sum of what the levels give, vwap is the sum of
\* price x consumed quantity over filled, and the result is
\* vwap 0, filled 0, remaining q when the opposing side is empty.
C25_VwapWalksLevelsInOrder ==
    \A q \in VwapQuantities \ {0} : \A side \in {"buy", "sell"} :
        LET result == estimate_vwap(q, side)
            prices == DOMAIN OpposingLevels(side)
        IN /\ result.raised = ""
           /\ result.filled = ConsumedQuantity(side, q, prices)
           /\ result.filled > 0
              => FracEq(result.vwap, <<ConsumedCost(side, q, prices), result.filled>>)
           /\ prices = {}
              => result = [raised |-> "", vwap |-> <<0, 1>>, filled |-> 0,
                           remaining |-> q]

\* the target volumes of the VWAP at depth: from nothing up to more than
\* the book holds
TargetVolumes == 0..(2 * MaxEntries + 1)

\* C27: in _calculate_partial_vwap, for every depth snapshot and target
\* volume T, the volume taken from the bids is at most T / 2 and the volume
\* taken from the asks is at most T / 2: the asks do not make up for what
\* the bids cannot supply.
C27_HalfTargetFromEachSide ==
    \A target_volume \in TargetVolumes :
        LET fill == PartialVwapFill(get_depth(depth_levels), target_volume)
        IN /\ fill.bid_volume2 <= target_volume
           /\ fill.ask_volume2 <= target_volume

\* C21: the price series and the volume series of the liquidity analyzer
\* never hold more than 1000 samples, whatever series the analyzer was
\* constructed with; update_history appends one sample to each series and,
\* beyond capacity, evicts the oldest samples so that both series are
\* within 1000 again.
C21_SeriesBounded ==
    /\ [](/\ Len(price_history) <= liquidity_max_history
          /\ Len(volume_history) <= liquidity_max_history)
    /\ [][fed' = fed + 1 =>
             /\ Len(price_history') <= liquidity_max_history
             /\ Len(volume_history') <= liquidity_max_history]_vars

\* the total liquidity calculate_market_impact_models reads
TotalLiquidity ==
    get_depth(ImpactLevels).total_bid_volume + get_depth(ImpactLevels).total_ask_volume

\* C28: calculate_market_impact_models holds a model only when the
\* preconditions of the model hold: 'linear' and 'sqrt' only if the total
\* liquidity of the top 10 levels is not zero, 'sqrt' only if the spread is
\* available, and no model at all when the mid price is absent.
C28_ModelsOnlyWhenPreconditionsHold ==
    LET models == calculate_market_impact_models(ImpactQuantity)
    IN /\ "linear" \in DOMAIN models => TotalLiquidity # 0
       /\ "sqrt" \in DOMAIN models => TotalLiquidity # 0 /\ get_spread # None
       /\ mid_price = None => DOMAIN models = {}

\* a step of the presentation layer: plot_analytics_dashboard or
\* create_summary_table has returned
PresentationCall == Len(figures') = Len(figures) + 1

\* C24: the presentation layer never changes the state of the book or of an
\* analyzer: a call of plot_analytics_dashboard or of create_summary_table
\* leaves the order book and the history of the spread analyzer as they
\* were, so that the wide-spread flag, the statistics and the trend
\* computed afterwards are those computed without the call.
C24_PresentationReadsOnly ==
    [][PresentationCall =>
          /\ UNCHANGED <<bid_prices, ask_prices, bid_levels, ask_levels,
                         best_bid, best_ask, mid_price, update_count>>
          /\ UNCHANGED history]_vars

\* the spread_bps of the trailing 10 records of the history
TrailingBps ==
    [i \in DOMAIN LastN(history, WideSpreadWindow) |->
        LastN(history, WideSpreadWindow)[i].spread_bps]

\* bps > mean + 3 x standard deviation of the trailing 10 records: the
\* excess over the mean is positive and its square is more than 9 times
\* the variance
ExceedsThreeSigma(bps) ==
    /\ FracLess(Mean(TrailingBps), bps)
    /\ FracLess(FracMul(<<9, 1>>, Variance(TrailingBps)),
                FracMul(FracSub(bps, Mean(TrailingBps)),
                        FracSub(bps, Mean(TrailingBps))))

\* C26: a call of calculate_all_metrics made while the history holds at
\* least 10 records returns is_wide_spread true if and only if the spread
\* in bps is above mean + 3 x standard deviation of the spread_bps of the
\* trailing 10 records, or above 50; so when the 10 records are equal and
\* the spread in bps is larger than theirs, the flag is true.
C26_WideIffThreeSigmaOrFifty ==
    [][SpreadCall /\ Len(history) >= WideSpreadWindow =>
          (Val(spread_returned').is_wide_spread
             <=> \/ ExceedsThreeSigma(Val(spread_returned').spread_bps)
                 \/ FracLess(<<WideSpreadBps, 1>>,
                             Val(spread_returned').spread_bps))]_vars

\* C26, amended: with at least 10 records in the history, is_wide_spread is
\* true if and only if the standard deviation of the spread_bps of the
\* trailing 10 records is above 0 and the spread in bps is above mean + 3 x
\* that deviation, or the spread in bps is above 50; when the 10 records
\* are equal the flag is true exactly when the spread is above 50 bps.
C26_WideIffDeviatingOrFifty ==
    [][SpreadCall /\ Len(history) >= WideSpreadWindow =>
          (Val(spread_returned').is_wide_spread
             <=> \/ /\ FracLess(<<0, 1>>, Variance(TrailingBps))
                    /\ ExceedsThreeSigma(Val(spread_returned').spread_bps)
                 \/ FracLess(<<WideSpreadBps, 1>>,
                             Val(spread_returned').spread_bps))]_vars

\* a call at 32 bps made after ten equal records of 12.5 bps, stored as the
\* eleventh record and not flagged
C26_Witness ==
    /\ Len(history) = WideSpreadWindow + 1
    /\ \A i \in 1..WideSpreadWindow : history[i].spread_bps = <<25, 2>>
    /\ history[WideSpreadWindow + 1].spread_bps = <<32, 1>>
    /\ history[WideSpreadWindow + 1].is_wide_spread = FALSE
    /\ spread_returned = Some(history[WideSpreadWindow + 1])

\* what the reader has read, by name
Seen(name) == reader.seen[CHOOSE i \in DOMAIN Reads : Reads[i] = name]

\* what the book shows at the return of the update call in progress
Pending ==
    IF writer = Idle THEN Visible
    ELSE LET side == RebuildSide(sorted(writer.entries, OfBids(writer.method)))
             bids == IF OfBids(writer.method) THEN side.prices ELSE bid_prices
             asks == IF OfBids(writer.method) THEN ask_prices ELSE side.prices
             caches == UpdateCaches(bids, asks, best_bid, best_ask, mid_price)
         IN [best_bid |-> caches.best_bid, best_ask |-> caches.best_ask,
             mid_price |-> caches.mid_price,
             bid_prices |-> bids, ask_prices |-> asks]

\* the results of the update calls made so far, the one in progress included
Results == published \cup {Pending}

\* C23: with one writer thread in update_bids / update_asks and a reader
\* thread reading concurrently, the reader never holds a combination of
\* best_bid, best_ask and mid_price, or of a cached best price and the price
\* index of its side, that is not the result of one update call (or of the
\* construction of the book).
C23_ReaderSeesOneUpdate ==
    reader.pc = "done" =>
        /\ \E p \in Results :
               /\ p.best_bid = Seen("best_bid")
               /\ p.best_ask = Seen("best_ask")
               /\ p.mid_price = Seen("mid_price")
        /\ \E p \in Results :
               p.best_bid = Seen("best_bid") /\ p.bid_prices = Seen("bid_prices")
        /\ \E p \in Results :
               p.best_ask = Seen("best_ask") /\ p.ask_prices = Seen("ask_prices")

\* the results of a call that has nothing to compute on
ZeroDepthMetrics ==
    [total_bid_volume |-> 0, total_ask_volume |-> 0,
     volume_imbalance |-> <<0, 1>>, depth_resilience |-> <<0, 1>>]

====
